---------------------------- MODULE Spec2Model ----------------------------
(***************************************************************************)
(* Model of the provider core of tbmobb813/Prive (@lai/core):              *)
(*   - StreamManager.handleStream, streamToString, bufferStream and the    *)
(*     handleStream function        (providers/streaming.ts)               *)
(*   - ProviderRegistry             (providers/registry.ts)                *)
(*   - PROVIDER_CAPABILITIES        (providers/capabilities.ts)            *)
(*                                                                         *)
(* Strings are modelled as sequences of characters, so that string         *)
(* concatenation (+=) is sequence concatenation (\o).                      *)
(*                                                                         *)
(* SpecStream    : one drain of an async generator by handleStream, one    *)
(*                 action per statement of the method.                     *)
(* SpecWrappers  : the same drain begun through any of its entry points.   *)
(* SpecBuffer    : bufferStream, driven by its consumer.                   *)
(* SpecRegistry  : a ProviderRegistry instance driven by its callers.      *)
(* SpecOwnership : the same, with callers assigning to the fields of the   *)
(*                 Provider objects they hold.                             *)
(* SpecFactory   : createDefault and detectAvailable.                      *)
(* SpecTable     : lookups in PROVIDER_CAPABILITIES.                       *)
(* SpecCancel    : SpecStream with a caller that wishes to stop the drain. *)
(* SpecSnapshots : SpecRegistry with a caller keeping a returned array.    *)
(* SpecRegistries: SpecFactory with a caller keeping an earlier registry.  *)
(* SpecStreamFair, SpecFactoryFair : SpecStream and SpecFactory with weak  *)
(*                 fairness of the steps the event loop runs.              *)
(***************************************************************************)
EXTENDS Integers, Sequences, FiniteSets, TLC

VARIABLES
    \* ---- StreamManager.handleStream ----
    pc,            \* position inside handleStream
    callbacks,     \* the StreamCallbacks argument: which observers are present
    emitted,       \* fragments the source generator has yielded so far
    srcState,      \* "open" | "ended" | "failed": state of the generator
    chunk,         \* the loop variable `chunk`
    fullResponse,  \* the local `fullResponse`
    pending,       \* the exception in flight (thrown value), or NoValue
    err,           \* the local `err` of the catch block, or NoValue
    outcome,       \* how the returned promise settled
    chunkLog,      \* arguments of the onChunk calls, in call order
    completeLog,   \* arguments of the onComplete calls, in call order
    errorLog,      \* arguments of the onError calls, in call order
    warnings,      \* number of console.warn calls
    trace,         \* history of the steps taken, in order
    \* ---- ProviderRegistry ----
    objs,          \* heap of Provider objects created so far (index = identity)
    providers,     \* the Map `providers`, in insertion order: Seq of [key, val]
    ret,           \* result of the last registry operation
    lastReg,       \* history: per identifier, the object most recently registered
    firstOrder,    \* history: identifiers in order of their first registration
    \* ---- ProviderRegistry.createDefault / detectAvailable ----
    fpc,           \* position inside the static helper
    fop,           \* which helper the caller invoked
    step,          \* number of the next try block of createDefault
    attempts,      \* history: the constructions attempted, with their outcome
    snapshot,      \* the array returned by registry.getAll() in detectAvailable
    idx,           \* position of the for...of loop in that array
    available,     \* the local array `available`
    valLog,        \* history: the validateConfig calls, with their outcome
    fresult,       \* how the helper ended
    \* ---- StreamManager.bufferStream ----
    bpc,           \* position inside the bufferStream generator
    bufferSize,    \* the argument `bufferSize`
    buffer,        \* the local `buffer`
    yielded,       \* the chunks the generator has yielded, in order
    bufOutcome,    \* how the derived sequence ended
    \* ---- streamToString and the handleStream function ----
    entry,         \* which entry point the caller used for the drain
    passed,        \* the callbacks argument as the caller passed it
    result,        \* how the promise of the entry point settled
    \* ---- PROVIDER_CAPABILITIES ----
    capLog,        \* history: the lookups made in the table, with their results
    \* ---- what the callers of the above hold ----
    cancel,        \* the caller's wish to stop the drain, and when it arose
    held,          \* an array a caller got from list() or getAll() and kept
    callerRegistry \* a registry a caller got from createDefault() and kept

streamVars == <<pc, callbacks, emitted, srcState, chunk, fullResponse, pending,
                err, outcome, chunkLog, completeLog, errorLog, warnings, trace>>
registryVars == <<objs, providers, ret, lastReg, firstOrder>>
factoryVars == <<fpc, fop, step, attempts, snapshot, idx, available, valLog,
                 fresult>>
bufferVars == <<bpc, bufferSize, buffer, yielded, bufOutcome>>
wrapperVars == <<entry, passed, result>>
tableVars == <<capLog>>
callerVars == <<cancel, held, callerRegistry>>
vars == <<streamVars, registryVars, factoryVars, bufferVars, wrapperVars,
          tableVars, callerVars>>

-----------------------------------------------------------------------------
(* Bounds *)

\* Largest number of fragments a source yields before it ends or fails.
MaxFrags == 3

\* Largest number of Provider objects the callers construct.
MaxInst == 3

-----------------------------------------------------------------------------
(* Values *)

NoValue == [kind |-> "none"]

\* The strings a source may yield: the empty string, a one-character and a
\* two-character string.
Fragments == { <<>>, <<"a">>, <<"b", "c">> }

\* Values a generator may throw: an Error object, or a value that is not one.
SourceError == [kind |-> "thrown", isError |-> TRUE,  from |-> "source", wrapped |-> FALSE]
SourceValue == [kind |-> "thrown", isError |-> FALSE, from |-> "source", wrapped |-> FALSE]
SourceThrowables == {SourceError, SourceValue}

\* The Error a throwing observer raises.
ObserverError(name) ==
    [kind |-> "thrown", isError |-> TRUE, from |-> name, wrapped |-> FALSE]

\* error instanceof Error ? error : new Error(String(error))
Normalize(e) ==
    IF e.isError THEN e
    ELSE [kind |-> "thrown", isError |-> TRUE, from |-> e.from, wrapped |-> TRUE]

\* The StreamCallbacks objects: each observer is present or absent.
CallbackSets == [onChunk : BOOLEAN, onComplete : BOOLEAN, onError : BOOLEAN]

\* Concatenation of a sequence of strings, in order.
RECURSIVE Concat(_)
Concat(ss) == IF ss = <<>> THEN <<>> ELSE Head(ss) \o Concat(Tail(ss))

Event(ev, n) == [ev |-> ev, n |-> n]

-----------------------------------------------------------------------------
(* StreamManager.handleStream: streaming.ts lines 13-39 *)

StreamIdle ==
    /\ pc = "idle"
    /\ callbacks = [onChunk |-> FALSE, onComplete |-> FALSE, onError |-> FALSE]
    /\ emitted = <<>>
    /\ srcState = "open"
    /\ chunk = <<>>
    /\ fullResponse = <<>>
    /\ pending = NoValue
    /\ err = NoValue
    /\ outcome = [kind |-> "none"]
    /\ chunkLog = <<>>
    /\ completeLog = <<>>
    /\ errorLog = <<>>
    /\ warnings = 0
    /\ trace = <<>>

\* fullResponse += chunk
Accumulated(full, c) == full \o c

\* handleStream(stream, callbacks): let fullResponse = ''; enter the try block.
StartDrain ==
    /\ pc = "idle"
    /\ \E cb \in CallbackSets : callbacks' = cb
    /\ fullResponse' = <<>>
    /\ pc' = "next"
    /\ trace' = Append(trace, Event("start", 0))
    /\ UNCHANGED <<emitted, srcState, chunk, pending, err, outcome, chunkLog,
                   completeLog, errorLog, warnings>>
    /\ UNCHANGED <<registryVars, factoryVars, bufferVars>>
    /\ UNCHANGED <<wrapperVars, tableVars, callerVars>>

\* The loop with a check of the caller's signal before each fragment:
\* if (signal.cancelled) break;
SourceYieldUnlessCancelled ==
    /\ pc = "next"
    /\ srcState = "open"
    /\ IF cancel.raised
       THEN /\ pc' = "complete"
            /\ UNCHANGED <<emitted, chunk, trace>>
       ELSE /\ Len(emitted) < MaxFrags
            /\ \E f \in Fragments :
                  /\ emitted' = Append(emitted, f)
                  /\ chunk' = f
            /\ pc' = "accumulate"
            /\ trace' = Append(trace, Event("pull", Len(emitted) + 1))
    /\ UNCHANGED <<callbacks, srcState, fullResponse, pending, err, outcome,
                   chunkLog, completeLog, errorLog, warnings>>
    /\ UNCHANGED <<registryVars, factoryVars, bufferVars>>
    /\ UNCHANGED <<wrapperVars, tableVars, callerVars>>

\* for await (const chunk of stream): the generator yields the next fragment.
SourceYield ==
    /\ pc = "next"
    /\ srcState = "open"
    /\ Len(emitted) < MaxFrags
    /\ \E f \in Fragments :
          /\ emitted' = Append(emitted, f)
          /\ chunk' = f
    /\ pc' = "accumulate"
    /\ trace' = Append(trace, Event("pull", Len(emitted) + 1))
    /\ UNCHANGED <<callbacks, srcState, fullResponse, pending, err, outcome,
                   chunkLog, completeLog, errorLog, warnings>>
    /\ UNCHANGED <<registryVars, factoryVars, bufferVars>>
    /\ UNCHANGED <<wrapperVars, tableVars, callerVars>>

\* for await (...): the generator is exhausted; the loop exits normally.
SourceEnd ==
    /\ pc = "next"
    /\ srcState = "open"
    /\ srcState' = "ended"
    /\ pc' = "complete"
    /\ trace' = Append(trace, Event("pull", Len(emitted) + 1))
    /\ UNCHANGED <<callbacks, emitted, chunk, fullResponse, pending, err,
                   outcome, chunkLog, completeLog, errorLog, warnings>>
    /\ UNCHANGED <<registryVars, factoryVars, bufferVars>>
    /\ UNCHANGED <<wrapperVars, tableVars, callerVars>>

\* The loop with a handler around the request of each fragment:
\* catch (e) { callbacks.onError?.(e); continue; } - the failure is reported
\* and the loop goes on with the source.
SourceThrowReported ==
    /\ pc = "next"
    /\ srcState = "open"
    /\ Len(trace) < 2 * MaxFrags
    /\ \E v \in SourceThrowables :
          errorLog' = IF callbacks.onError
                      THEN Append(errorLog, Normalize(v))
                      ELSE errorLog
    /\ pc' = "next"
    /\ trace' = IF callbacks.onError
                THEN trace \o <<Event("pull", Len(emitted) + 1), Event("error", 0)>>
                ELSE Append(trace, Event("pull", Len(emitted) + 1))
    /\ UNCHANGED <<callbacks, emitted, srcState, chunk, fullResponse, pending,
                   err, outcome, chunkLog, completeLog, warnings>>
    /\ UNCHANGED <<registryVars, factoryVars, bufferVars>>
    /\ UNCHANGED <<wrapperVars, tableVars, callerVars>>

\* for await (...): the generator throws; control passes to the catch block.
SourceThrow ==
    /\ pc = "next"
    /\ srcState = "open"
    /\ srcState' = "failed"
    /\ \E v \in SourceThrowables : pending' = v
    /\ pc' = "catch"
    /\ trace' = Append(trace, Event("pull", Len(emitted) + 1))
    /\ UNCHANGED <<callbacks, emitted, chunk, fullResponse, err, outcome,
                   chunkLog, completeLog, errorLog, warnings>>
    /\ UNCHANGED <<registryVars, factoryVars, bufferVars>>
    /\ UNCHANGED <<wrapperVars, tableVars, callerVars>>

\* fullResponse += chunk;  if (callbacks.onChunk) { ... }
Accumulate ==
    /\ pc = "accumulate"
    /\ fullResponse' = Accumulated(fullResponse, chunk)
    /\ pc' = IF callbacks.onChunk THEN "callOnChunk" ELSE "next"
    /\ trace' = Append(trace, Event("append", Len(emitted)))
    /\ UNCHANGED <<callbacks, emitted, srcState, chunk, pending, err, outcome,
                   chunkLog, completeLog, errorLog, warnings>>
    /\ UNCHANGED <<registryVars, factoryVars, bufferVars>>
    /\ UNCHANGED <<wrapperVars, tableVars, callerVars>>

\* callbacks.onChunk(fullResponse): the observer is handed the accumulator in
\* place of the fragment.
CallOnChunkWithAccumulated ==
    /\ pc = "callOnChunk"
    /\ chunkLog' = Append(chunkLog, fullResponse)
    /\ pc' = "inOnChunk"
    /\ trace' = Append(trace, Event("chunkCall", Len(emitted)))
    /\ UNCHANGED <<callbacks, emitted, srcState, chunk, fullResponse, pending,
                   err, outcome, completeLog, errorLog, warnings>>
    /\ UNCHANGED <<registryVars, factoryVars, bufferVars>>
    /\ UNCHANGED <<wrapperVars, tableVars, callerVars>>

\* try { callbacks.onChunk(chunk): the observer is entered with the fragment.
CallOnChunk ==
    /\ pc = "callOnChunk"
    /\ chunkLog' = Append(chunkLog, chunk)
    /\ pc' = "inOnChunk"
    /\ trace' = Append(trace, Event("chunkCall", Len(emitted)))
    /\ UNCHANGED <<callbacks, emitted, srcState, chunk, fullResponse, pending,
                   err, outcome, completeLog, errorLog, warnings>>
    /\ UNCHANGED <<registryVars, factoryVars, bufferVars>>
    /\ UNCHANGED <<wrapperVars, tableVars, callerVars>>

\* The onChunk observer returns; the loop asks for the next fragment.
OnChunkReturn ==
    /\ pc = "inOnChunk"
    /\ pc' = "next"
    /\ trace' = Append(trace, Event("chunkRet", Len(emitted)))
    /\ UNCHANGED <<callbacks, emitted, srcState, chunk, fullResponse, pending,
                   err, outcome, chunkLog, completeLog, errorLog, warnings>>
    /\ UNCHANGED <<registryVars, factoryVars, bufferVars>>
    /\ UNCHANGED <<wrapperVars, tableVars, callerVars>>

\* The onChunk observer throws: catch (error) { console.warn(...) }; the loop
\* goes on.
OnChunkThrow ==
    /\ pc = "inOnChunk"
    /\ warnings' = warnings + 1
    /\ pc' = "next"
    /\ trace' = Append(trace, Event("chunkThrow", Len(emitted)))
    /\ UNCHANGED <<callbacks, emitted, srcState, chunk, fullResponse, pending,
                   err, outcome, chunkLog, completeLog, errorLog>>
    /\ UNCHANGED <<registryVars, factoryVars, bufferVars>>
    /\ UNCHANGED <<wrapperVars, tableVars, callerVars>>

\* callbacks.onComplete?.(fullResponse): no observer, or the observer returns.
Complete ==
    /\ pc = "complete"
    /\ completeLog' = IF callbacks.onComplete
                      THEN Append(completeLog, fullResponse)
                      ELSE completeLog
    /\ pc' = "return"
    /\ trace' = IF callbacks.onComplete
                THEN Append(trace, Event("complete", 0))
                ELSE trace
    /\ UNCHANGED <<callbacks, emitted, srcState, chunk, fullResponse, pending,
                   err, outcome, chunkLog, errorLog, warnings>>
    /\ UNCHANGED <<registryVars, factoryVars, bufferVars>>
    /\ UNCHANGED <<wrapperVars, tableVars, callerVars>>

\* callbacks.onComplete?.(fullResponse): the observer throws.  The call is
\* inside the try block, so control passes to the catch block.
CompleteThrow ==
    /\ pc = "complete"
    /\ callbacks.onComplete
    /\ completeLog' = Append(completeLog, fullResponse)
    /\ pending' = ObserverError("onComplete")
    /\ pc' = "catch"
    /\ trace' = Append(trace, Event("complete", 0))
    /\ UNCHANGED <<callbacks, emitted, srcState, chunk, fullResponse, err,
                   outcome, chunkLog, errorLog, warnings>>
    /\ UNCHANGED <<registryVars, factoryVars, bufferVars>>
    /\ UNCHANGED <<wrapperVars, tableVars, callerVars>>

\* The method waiting, before it returns, on a promise that nothing settles.
ReturnAwaitsForever ==
    /\ pc = "return"
    /\ pc' = "return"
    /\ UNCHANGED <<callbacks, emitted, srcState, chunk, fullResponse, pending,
                   err, outcome, chunkLog, completeLog, errorLog, warnings,
                   trace>>
    /\ UNCHANGED <<registryVars, factoryVars, bufferVars>>
    /\ UNCHANGED <<wrapperVars, tableVars, callerVars>>

\* return fullResponse;
Return ==
    /\ pc = "return"
    /\ outcome' = [kind |-> "returned", value |-> fullResponse]
    /\ pc' = "done"
    /\ trace' = Append(trace, Event("return", 0))
    /\ UNCHANGED <<callbacks, emitted, srcState, chunk, fullResponse, pending,
                   err, chunkLog, completeLog, errorLog, warnings>>
    /\ UNCHANGED <<registryVars, factoryVars, bufferVars>>
    /\ UNCHANGED <<wrapperVars, tableVars, callerVars>>

\* catch (error) { const err = error instanceof Error ? error : new Error(...)
Catch ==
    /\ pc = "catch"
    /\ err' = Normalize(pending)
    /\ pending' = NoValue
    /\ pc' = "onError"
    /\ UNCHANGED <<callbacks, emitted, srcState, chunk, fullResponse, outcome,
                   chunkLog, completeLog, errorLog, warnings, trace>>
    /\ UNCHANGED <<registryVars, factoryVars, bufferVars>>
    /\ UNCHANGED <<wrapperVars, tableVars, callerVars>>

\* The catch block without its onError call.
OnErrorNotCalled ==
    /\ pc = "onError"
    /\ pc' = "throw"
    /\ UNCHANGED <<callbacks, emitted, srcState, chunk, fullResponse, pending,
                   err, outcome, chunkLog, completeLog, errorLog, warnings,
                   trace>>
    /\ UNCHANGED <<registryVars, factoryVars, bufferVars>>
    /\ UNCHANGED <<wrapperVars, tableVars, callerVars>>

\* callbacks.onError?.(err): no observer, or the observer returns.
OnError ==
    /\ pc = "onError"
    /\ errorLog' = IF callbacks.onError THEN Append(errorLog, err) ELSE errorLog
    /\ pc' = "throw"
    /\ trace' = IF callbacks.onError
                THEN Append(trace, Event("error", 0))
                ELSE trace
    /\ UNCHANGED <<callbacks, emitted, srcState, chunk, fullResponse, pending,
                   err, outcome, chunkLog, completeLog, warnings>>
    /\ UNCHANGED <<registryVars, factoryVars, bufferVars>>
    /\ UNCHANGED <<wrapperVars, tableVars, callerVars>>

\* callbacks.onError?.(err): the observer throws.  Nothing catches it: the
\* observer's exception leaves handleStream in place of err.
OnErrorThrow ==
    /\ pc = "onError"
    /\ callbacks.onError
    /\ errorLog' = Append(errorLog, err)
    /\ outcome' = [kind |-> "raised", value |-> ObserverError("onError")]
    /\ pc' = "done"
    /\ trace' = Append(Append(trace, Event("error", 0)), Event("raise", 0))
    /\ UNCHANGED <<callbacks, emitted, srcState, chunk, fullResponse, pending,
                   err, chunkLog, completeLog, warnings>>
    /\ UNCHANGED <<registryVars, factoryVars, bufferVars>>
    /\ UNCHANGED <<wrapperVars, tableVars, callerVars>>

\* The catch block ending in `return fullResponse` in place of `throw err`.
ThrowSwallowed ==
    /\ pc = "throw"
    /\ outcome' = [kind |-> "returned", value |-> fullResponse]
    /\ pc' = "done"
    /\ trace' = Append(trace, Event("return", 0))
    /\ UNCHANGED <<callbacks, emitted, srcState, chunk, fullResponse, pending,
                   err, chunkLog, completeLog, errorLog, warnings>>
    /\ UNCHANGED <<registryVars, factoryVars, bufferVars>>
    /\ UNCHANGED <<wrapperVars, tableVars, callerVars>>

\* throw err;
Throw ==
    /\ pc = "throw"
    /\ outcome' = [kind |-> "raised", value |-> err]
    /\ pc' = "done"
    /\ trace' = Append(trace, Event("raise", 0))
    /\ UNCHANGED <<callbacks, emitted, srcState, chunk, fullResponse, pending,
                   err, chunkLog, completeLog, errorLog, warnings>>
    /\ UNCHANGED <<registryVars, factoryVars, bufferVars>>
    /\ UNCHANGED <<wrapperVars, tableVars, callerVars>>

-----------------------------------------------------------------------------
(* ProviderRegistry: registry.ts lines 9-49 *)

\* ProviderType: the closed set of provider identifiers.
ProviderTypes == {"openai", "anthropic", "gemini", "ollama"}

\* Identifiers a caller may look up: the closed set and one string outside it.
LookupIds == ProviderTypes \cup {"unknown"}

\* JavaScript's undefined, and a reference to the Provider object objs[n].
Undefined == [kind |-> "undefined"]
Ref(n) == [kind |-> "provider", ref |-> n]

\* Map.prototype.has
MapHas(m, k) == \E i \in 1..Len(m) : m[i].key = k

\* Position of key k in the Map's insertion order (k is present).
MapIndex(m, k) == CHOOSE i \in 1..Len(m) : m[i].key = k

\* Map.prototype.get
MapGet(m, k) == IF MapHas(m, k) THEN Ref(m[MapIndex(m, k)].val) ELSE Undefined

\* Map.prototype.set: a present key keeps its place and gets the new value; a
\* new key is added at the end.
MapSet(m, k, v) ==
    IF MapHas(m, k)
    THEN [m EXCEPT ![MapIndex(m, k)].val = v]
    ELSE Append(m, [key |-> k, val |-> v])

\* Array.from(map.keys())
MapKeys(m) == [i \in 1..Len(m) |-> m[i].key]

\* Array.from(map.values())
MapValues(m) == [i \in 1..Len(m) |-> Ref(m[i].val)]

\* constructor(): this.providers = new Map()
RegistryNew ==
    /\ objs = <<>>
    /\ providers = <<>>
    /\ ret = [op |-> "none"]
    /\ lastReg = [t \in ProviderTypes |-> 0]
    /\ firstOrder = <<>>

\* A caller constructs a Provider object of type t.
Construct(t) ==
    /\ Len(objs) < MaxInst
    /\ objs' = Append(objs, [type |-> t, currentModel |-> "default"])
    /\ UNCHANGED <<providers, ret, lastReg, firstOrder>>
    /\ UNCHANGED <<streamVars, factoryVars, bufferVars>>
    /\ UNCHANGED <<wrapperVars, tableVars, callerVars>>

\* register(provider) leaving the Map as newMap.
RegisterLeaving(p, newMap) ==
    /\ p \in 1..Len(objs)
    /\ providers' = newMap
    /\ ret' = [op |-> "register", arg |-> p,
               replaced |-> MapHas(providers, objs[p].type),
               keysBefore |-> MapKeys(providers)]
    /\ lastReg' = [lastReg EXCEPT ![objs[p].type] = p]
    /\ firstOrder' = IF \E i \in 1..Len(firstOrder) : firstOrder[i] = objs[p].type
                     THEN firstOrder
                     ELSE Append(firstOrder, objs[p].type)
    /\ UNCHANGED objs
    /\ UNCHANGED <<streamVars, factoryVars, bufferVars>>
    /\ UNCHANGED <<wrapperVars, tableVars, callerVars>>

\* if (!this.providers.has(provider.type)) this.providers.set(...): the first
\* object registered under an identifier stays.
RegisterIfAbsent(p) ==
    RegisterLeaving(p, IF MapHas(providers, objs[p].type)
                       THEN providers
                       ELSE MapSet(providers, objs[p].type, p))

\* this.providers.delete(provider.type); this.providers.set(...): a replaced
\* identifier moves to the end of the insertion order.
RegisterDeleteFirst(p) ==
    RegisterLeaving(p, MapSet(SelectSeq(providers, LAMBDA e : e.key # objs[p].type),
                              objs[p].type, p))

\* A register that makes room for an identifier it does not hold by dropping
\* the oldest entry: this.providers.delete(<first key>) before the set.
RegisterEvicting(p) ==
    RegisterLeaving(p, IF MapHas(providers, objs[p].type) \/ providers = <<>>
                       THEN MapSet(providers, objs[p].type, p)
                       ELSE MapSet(Tail(providers), objs[p].type, p))

\* this.providers.clear(); this.providers.set(provider.type, provider): a
\* register that drops the entries of the other identifiers.
RegisterAfterClear(p) ==
    RegisterLeaving(p, MapSet(<<>>, objs[p].type, p))

\* async register(provider) { this.providers.delete(provider.type);
\* await ...; this.providers.set(provider.type, provider) }: a register in two
\* halves, between which other operations run.
RegisterTorn(p) ==
    /\ p \in 1..Len(objs)
    /\ IF ret.op = "registering" /\ ret.arg = p
       THEN /\ providers' = MapSet(providers, objs[p].type, p)
            /\ ret' = [op |-> "register", arg |-> p,
                       replaced |-> ret.replaced,
                       keysBefore |-> ret.keysBefore]
            /\ lastReg' = [lastReg EXCEPT ![objs[p].type] = p]
            /\ firstOrder' = IF \E i \in 1..Len(firstOrder) : firstOrder[i] = objs[p].type
                             THEN firstOrder
                             ELSE Append(firstOrder, objs[p].type)
       ELSE /\ providers' = SelectSeq(providers, LAMBDA e : e.key # objs[p].type)
            /\ ret' = [op |-> "registering", arg |-> p,
                       replaced |-> MapHas(providers, objs[p].type),
                       keysBefore |-> MapKeys(providers)]
            /\ UNCHANGED <<lastReg, firstOrder>>
    /\ UNCHANGED objs
    /\ UNCHANGED <<streamVars, factoryVars, bufferVars>>
    /\ UNCHANGED <<wrapperVars, tableVars, callerVars>>

\* A registry that hands out its own arrays from list() and getAll() and
\* keeps them up to date: a register shows in an array returned before.
RegisterSeenInHeld(p) ==
    /\ p \in 1..Len(objs)
    /\ providers' = MapSet(providers, objs[p].type, p)
    /\ ret' = [op |-> "register", arg |-> p,
               replaced |-> MapHas(providers, objs[p].type),
               keysBefore |-> MapKeys(providers)]
    /\ lastReg' = [lastReg EXCEPT ![objs[p].type] = p]
    /\ firstOrder' = IF \E i \in 1..Len(firstOrder) : firstOrder[i] = objs[p].type
                     THEN firstOrder
                     ELSE Append(firstOrder, objs[p].type)
    /\ held' = CASE held.from = "list" -> [held EXCEPT !.val = MapKeys(providers')]
                  [] held.from = "getAll" -> [held EXCEPT !.val = MapValues(providers')]
                  [] OTHER -> held
    /\ UNCHANGED objs
    /\ UNCHANGED <<cancel, callerRegistry>>
    /\ UNCHANGED <<streamVars, factoryVars, bufferVars>>
    /\ UNCHANGED <<wrapperVars, tableVars>>

\* register(provider): this.providers.set(provider.type, provider)
Register(p) ==
    /\ p \in 1..Len(objs)
    /\ providers' = MapSet(providers, objs[p].type, p)
    /\ ret' = [op |-> "register", arg |-> p,
               replaced |-> MapHas(providers, objs[p].type),
               keysBefore |-> MapKeys(providers)]
    /\ lastReg' = [lastReg EXCEPT ![objs[p].type] = p]
    /\ firstOrder' = IF \E i \in 1..Len(firstOrder) : firstOrder[i] = objs[p].type
                     THEN firstOrder
                     ELSE Append(firstOrder, objs[p].type)
    /\ UNCHANGED objs
    /\ UNCHANGED <<streamVars, factoryVars, bufferVars>>
    /\ UNCHANGED <<wrapperVars, tableVars, callerVars>>

\* get(type) that rejects an identifier it does not hold:
\* if (!this.providers.has(type)) throw new Error(...)
GetOrThrow(t) ==
    /\ ret' = [op |-> "get", arg |-> t,
               val |-> IF MapHas(providers, t)
                       THEN MapGet(providers, t)
                       ELSE [kind |-> "thrown"]]
    /\ UNCHANGED <<objs, providers, lastReg, firstOrder>>
    /\ UNCHANGED <<streamVars, factoryVars, bufferVars>>
    /\ UNCHANGED <<wrapperVars, tableVars, callerVars>>

\* get(type): return this.providers.get(type)
Get(t) ==
    /\ ret' = [op |-> "get", arg |-> t, val |-> MapGet(providers, t)]
    /\ UNCHANGED <<objs, providers, lastReg, firstOrder>>
    /\ UNCHANGED <<streamVars, factoryVars, bufferVars>>
    /\ UNCHANGED <<wrapperVars, tableVars, callerVars>>

\* has(type) answering for the closed set in place of the Map:
\* return KNOWN_TYPES.includes(type)
HasKnownType(t) ==
    /\ ret' = [op |-> "has", arg |-> t, val |-> t \in ProviderTypes]
    /\ UNCHANGED <<objs, providers, lastReg, firstOrder>>
    /\ UNCHANGED <<streamVars, factoryVars, bufferVars>>
    /\ UNCHANGED <<wrapperVars, tableVars, callerVars>>

\* has(type): return this.providers.has(type)
Has(t) ==
    /\ ret' = [op |-> "has", arg |-> t, val |-> MapHas(providers, t)]
    /\ UNCHANGED <<objs, providers, lastReg, firstOrder>>
    /\ UNCHANGED <<streamVars, factoryVars, bufferVars>>
    /\ UNCHANGED <<wrapperVars, tableVars, callerVars>>

\* list() in reverse: Array.from(this.providers.keys()).reverse()
ListReversed ==
    /\ ret' = [op |-> "list",
               val |-> [i \in 1..Len(providers) |->
                           providers[Len(providers) + 1 - i].key]]
    /\ UNCHANGED <<objs, providers, lastReg, firstOrder>>
    /\ UNCHANGED <<streamVars, factoryVars, bufferVars>>
    /\ UNCHANGED <<wrapperVars, tableVars, callerVars>>

\* list(): return Array.from(this.providers.keys())
List ==
    /\ ret' = [op |-> "list", val |-> MapKeys(providers)]
    /\ UNCHANGED <<objs, providers, lastReg, firstOrder>>
    /\ UNCHANGED <<streamVars, factoryVars, bufferVars>>
    /\ UNCHANGED <<wrapperVars, tableVars, callerVars>>

\* getAll() in reverse: Array.from(this.providers.values()).reverse()
GetAllReversed ==
    /\ ret' = [op |-> "getAll",
               val |-> [i \in 1..Len(providers) |->
                           Ref(providers[Len(providers) + 1 - i].val)]]
    /\ UNCHANGED <<objs, providers, lastReg, firstOrder>>
    /\ UNCHANGED <<streamVars, factoryVars, bufferVars>>
    /\ UNCHANGED <<wrapperVars, tableVars, callerVars>>

\* getAll(): return Array.from(this.providers.values())
GetAll ==
    /\ ret' = [op |-> "getAll", val |-> MapValues(providers)]
    /\ UNCHANGED <<objs, providers, lastReg, firstOrder>>
    /\ UNCHANGED <<streamVars, factoryVars, bufferVars>>
    /\ UNCHANGED <<wrapperVars, tableVars, callerVars>>

-----------------------------------------------------------------------------
(* ProviderRegistry.createDefault and detectAvailable: registry.ts lines 56-108 *)

\* The try blocks of createDefault, in program order.
DefaultOrder == <<"openai", "anthropic", "gemini", "ollama">>

\* new OpenAIProvider({ type: 'openai' }) and its siblings, when the
\* constructor does not throw: a Provider bound to the identifier of its
\* configuration.
NewProvider(t) == [type |-> t, currentModel |-> "default"]

FactoryIdle ==
    /\ fpc = "idle"
    /\ fop = "none"
    /\ step = 1
    /\ attempts = <<>>
    /\ snapshot = <<>>
    /\ idx = 1
    /\ available = <<>>
    /\ valLog = <<>>
    /\ fresult = [kind |-> "none"]

\* The caller invokes ProviderRegistry.createDefault():
\* const registry = new ProviderRegistry()
CallCreateDefault ==
    /\ fpc = "idle"
    /\ fop' = "createDefault"
    /\ providers' = <<>>
    /\ step' = 1
    /\ fpc' = "create"
    /\ UNCHANGED <<attempts, snapshot, idx, available, valLog, fresult>>
    /\ UNCHANGED <<objs, ret, lastReg, firstOrder>>
    /\ UNCHANGED <<streamVars, bufferVars>>
    /\ UNCHANGED <<wrapperVars, tableVars, callerVars>>

\* The caller invokes ProviderRegistry.detectAvailable():
\* const available = []; const registry = ProviderRegistry.createDefault()
CallDetectAvailable ==
    /\ fpc = "idle"
    /\ fop' = "detectAvailable"
    /\ available' = <<>>
    /\ providers' = <<>>
    /\ step' = 1
    /\ fpc' = "create"
    /\ UNCHANGED <<attempts, snapshot, idx, valLog, fresult>>
    /\ UNCHANGED <<objs, ret, lastReg, firstOrder>>
    /\ UNCHANGED <<streamVars, bufferVars>>
    /\ UNCHANGED <<wrapperVars, tableVars, callerVars>>

\* The catalog as a static field, private static providers = new Map(), one
\* for all registries: what createDefault registers shows in the registry
\* the caller holds.
TryRegisterShared ==
    /\ fpc = "create"
    /\ step <= Len(DefaultOrder)
    /\ LET t == DefaultOrder[step]
           p == Len(objs) + 1
           o == NewProvider(t)
       IN  /\ objs' = Append(objs, o)
           /\ providers' = MapSet(providers, o.type, p)
           /\ callerRegistry' =
                 IF callerRegistry.present
                 THEN [callerRegistry EXCEPT !.map = MapSet(@, o.type, p)]
                 ELSE callerRegistry
           /\ ret' = [op |-> "register", arg |-> p,
                      replaced |-> MapHas(providers, o.type),
                      keysBefore |-> MapKeys(providers)]
           /\ lastReg' = [lastReg EXCEPT ![o.type] = p]
           /\ firstOrder' = IF \E i \in 1..Len(firstOrder) : firstOrder[i] = o.type
                            THEN firstOrder
                            ELSE Append(firstOrder, o.type)
           /\ attempts' = Append(attempts, [type |-> t, ok |-> TRUE])
    /\ step' = step + 1
    /\ UNCHANGED <<fpc, fop, snapshot, idx, available, valLog, fresult>>
    /\ UNCHANGED <<cancel, held>>
    /\ UNCHANGED <<streamVars, bufferVars>>
    /\ UNCHANGED <<wrapperVars, tableVars>>

\* try { registry.register(new XProvider({ type })) }: the constructor
\* returns and the new object is registered.
TryRegister ==
    /\ fpc = "create"
    /\ step <= Len(DefaultOrder)
    /\ LET t == DefaultOrder[step]
           p == Len(objs) + 1
           o == NewProvider(t)
       IN  /\ objs' = Append(objs, o)
           /\ providers' = MapSet(providers, o.type, p)
           /\ ret' = [op |-> "register", arg |-> p,
                      replaced |-> MapHas(providers, o.type),
                      keysBefore |-> MapKeys(providers)]
           /\ lastReg' = [lastReg EXCEPT ![o.type] = p]
           /\ firstOrder' = IF \E i \in 1..Len(firstOrder) : firstOrder[i] = o.type
                            THEN firstOrder
                            ELSE Append(firstOrder, o.type)
           /\ attempts' = Append(attempts, [type |-> t, ok |-> TRUE])
    /\ step' = step + 1
    /\ UNCHANGED <<fpc, fop, snapshot, idx, available, valLog, fresult>>
    /\ UNCHANGED <<streamVars, bufferVars>>
    /\ UNCHANGED <<wrapperVars, tableVars, callerVars>>

\* One try block around all four registrations: the first constructor that
\* throws ends createDefault's attempts.
TrySkipAbandonsRest ==
    /\ fpc = "create"
    /\ step <= Len(DefaultOrder)
    /\ attempts' = Append(attempts, [type |-> DefaultOrder[step], ok |-> FALSE])
    /\ step' = Len(DefaultOrder) + 1
    /\ UNCHANGED <<fpc, fop, snapshot, idx, available, valLog, fresult>>
    /\ UNCHANGED registryVars
    /\ UNCHANGED <<streamVars, bufferVars>>
    /\ UNCHANGED <<wrapperVars, tableVars, callerVars>>

\* The try block without its catch: the constructor's exception leaves the
\* helper.
TrySkipPropagates ==
    /\ fpc = "create"
    /\ step <= Len(DefaultOrder)
    /\ attempts' = Append(attempts, [type |-> DefaultOrder[step], ok |-> FALSE])
    /\ fresult' = [kind |-> "raised"]
    /\ fpc' = "done"
    /\ UNCHANGED <<fop, step, snapshot, idx, available, valLog>>
    /\ UNCHANGED registryVars
    /\ UNCHANGED <<streamVars, bufferVars>>
    /\ UNCHANGED <<wrapperVars, tableVars, callerVars>>

\* try { registry.register(new XProvider({ type })) } catch (error) { }: the
\* constructor throws; the provider is skipped.
TrySkip ==
    /\ fpc = "create"
    /\ step <= Len(DefaultOrder)
    /\ attempts' = Append(attempts, [type |-> DefaultOrder[step], ok |-> FALSE])
    /\ step' = step + 1
    /\ UNCHANGED <<fpc, fop, snapshot, idx, available, valLog, fresult>>
    /\ UNCHANGED registryVars
    /\ UNCHANGED <<streamVars, bufferVars>>
    /\ UNCHANGED <<wrapperVars, tableVars, callerVars>>

\* createDefault: return registry (to the caller of createDefault).
CreateDefaultReturn ==
    /\ fpc = "create"
    /\ step > Len(DefaultOrder)
    /\ fop = "createDefault"
    /\ fresult' = [kind |-> "returned", value |-> MapKeys(providers)]
    /\ fpc' = "done"
    /\ UNCHANGED <<fop, step, attempts, snapshot, idx, available, valLog>>
    /\ UNCHANGED registryVars
    /\ UNCHANGED <<streamVars, bufferVars>>
    /\ UNCHANGED <<wrapperVars, tableVars, callerVars>>

\* detectAvailable: createDefault has returned; for (const provider of
\* registry.getAll()) iterates the array getAll() returns.
DetectGetAll ==
    /\ fpc = "create"
    /\ step > Len(DefaultOrder)
    /\ fop = "detectAvailable"
    /\ snapshot' = MapValues(providers)
    /\ idx' = 1
    /\ fpc' = "loop"
    /\ UNCHANGED <<fop, step, attempts, available, valLog, fresult>>
    /\ UNCHANGED registryVars
    /\ UNCHANGED <<streamVars, bufferVars>>
    /\ UNCHANGED <<wrapperVars, tableVars, callerVars>>

\* try { const isValid = await provider.validateConfig(): the call is made.
ValidateCall ==
    /\ fpc = "loop"
    /\ idx <= Len(snapshot)
    /\ valLog' = Append(valLog, [ref |-> snapshot[idx].ref, outcome |-> "pending"])
    /\ fpc' = "validating"
    /\ UNCHANGED <<fop, step, attempts, snapshot, idx, available, fresult>>
    /\ UNCHANGED registryVars
    /\ UNCHANGED <<streamVars, bufferVars>>
    /\ UNCHANGED <<wrapperVars, tableVars, callerVars>>

\* available.unshift(provider.type): a valid provider is put in front.
ValidateTrueInFront ==
    /\ fpc = "validating"
    /\ available' = <<objs[snapshot[idx].ref].type>> \o available
    /\ valLog' = [valLog EXCEPT ![Len(valLog)].outcome = "true"]
    /\ idx' = idx + 1
    /\ fpc' = "loop"
    /\ UNCHANGED <<fop, step, attempts, snapshot, fresult>>
    /\ UNCHANGED registryVars
    /\ UNCHANGED <<streamVars, bufferVars>>
    /\ UNCHANGED <<wrapperVars, tableVars, callerVars>>

\* validateConfig resolves to true: if (isValid) available.push(provider.type)
ValidateTrue ==
    /\ fpc = "validating"
    /\ available' = Append(available, objs[snapshot[idx].ref].type)
    /\ valLog' = [valLog EXCEPT ![Len(valLog)].outcome = "true"]
    /\ idx' = idx + 1
    /\ fpc' = "loop"
    /\ UNCHANGED <<fop, step, attempts, snapshot, fresult>>
    /\ UNCHANGED registryVars
    /\ UNCHANGED <<streamVars, bufferVars>>
    /\ UNCHANGED <<wrapperVars, tableVars, callerVars>>

\* if (isValid !== undefined) available.push(provider.type): a provider whose
\* validation resolved to false is kept.
ValidateFalseKept ==
    /\ fpc = "validating"
    /\ available' = Append(available, objs[snapshot[idx].ref].type)
    /\ valLog' = [valLog EXCEPT ![Len(valLog)].outcome = "false"]
    /\ idx' = idx + 1
    /\ fpc' = "loop"
    /\ UNCHANGED <<fop, step, attempts, snapshot, fresult>>
    /\ UNCHANGED registryVars
    /\ UNCHANGED <<streamVars, bufferVars>>
    /\ UNCHANGED <<wrapperVars, tableVars, callerVars>>

\* validateConfig resolves to false: nothing is pushed.
ValidateFalse ==
    /\ fpc = "validating"
    /\ valLog' = [valLog EXCEPT ![Len(valLog)].outcome = "false"]
    /\ idx' = idx + 1
    /\ fpc' = "loop"
    /\ UNCHANGED <<fop, step, attempts, snapshot, available, fresult>>
    /\ UNCHANGED registryVars
    /\ UNCHANGED <<streamVars, bufferVars>>
    /\ UNCHANGED <<wrapperVars, tableVars, callerVars>>

\* The try block around the whole loop: the first validateConfig that
\* rejects ends the probing.
ValidateThrowEndsLoop ==
    /\ fpc = "validating"
    /\ valLog' = [valLog EXCEPT ![Len(valLog)].outcome = "throws"]
    /\ idx' = Len(snapshot) + 1
    /\ fpc' = "loop"
    /\ UNCHANGED <<fop, step, attempts, snapshot, available, fresult>>
    /\ UNCHANGED registryVars
    /\ UNCHANGED <<streamVars, bufferVars>>
    /\ UNCHANGED <<wrapperVars, tableVars, callerVars>>

\* validateConfig rejects: catch { }; nothing is pushed.
ValidateThrow ==
    /\ fpc = "validating"
    /\ valLog' = [valLog EXCEPT ![Len(valLog)].outcome = "throws"]
    /\ idx' = idx + 1
    /\ fpc' = "loop"
    /\ UNCHANGED <<fop, step, attempts, snapshot, available, fresult>>
    /\ UNCHANGED registryVars
    /\ UNCHANGED <<streamVars, bufferVars>>
    /\ UNCHANGED <<wrapperVars, tableVars, callerVars>>

\* A provider pushed whether or not it is in the registry: every identifier of
\* the closed set is reported.
DetectReturnAllKnown ==
    /\ fpc = "loop"
    /\ idx > Len(snapshot)
    /\ fresult' = [kind |-> "returned", value |-> DefaultOrder]
    /\ fpc' = "done"
    /\ UNCHANGED <<fop, step, attempts, snapshot, idx, available, valLog>>
    /\ UNCHANGED registryVars
    /\ UNCHANGED <<streamVars, bufferVars>>
    /\ UNCHANGED <<wrapperVars, tableVars, callerVars>>

\* The loop is over: return available
DetectReturn ==
    /\ fpc = "loop"
    /\ idx > Len(snapshot)
    /\ fresult' = [kind |-> "returned", value |-> available]
    /\ fpc' = "done"
    /\ UNCHANGED <<fop, step, attempts, snapshot, idx, available, valLog>>
    /\ UNCHANGED registryVars
    /\ UNCHANGED <<streamVars, bufferVars>>
    /\ UNCHANGED <<wrapperVars, tableVars, callerVars>>

-----------------------------------------------------------------------------
(* StreamManager.bufferStream: streaming.ts lines 51-70 *)

\* Largest threshold a caller passes, besides the default.
MaxBufferSize == 3

\* bufferSize: number = 10
DefaultBufferSize == 10

\* The thresholds a caller may pass: negative ones, zero, small positive ones,
\* and the default.
BufferSizes == ((-MaxBufferSize)..MaxBufferSize) \cup {DefaultBufferSize}

BufferIdle ==
    /\ bpc = "idle"
    /\ bufferSize = DefaultBufferSize
    /\ buffer = <<>>
    /\ yielded = <<>>
    /\ bufOutcome = [kind |-> "none"]

\* bufferStream(stream, bufferSize): the async generator object is created;
\* none of its body runs before the consumer asks for a chunk.
BufferCall ==
    /\ bpc = "idle"
    /\ \E n \in BufferSizes : bufferSize' = n
    /\ bpc' = "suspendedStart"
    /\ UNCHANGED <<buffer, yielded, bufOutcome>>
    /\ UNCHANGED <<streamVars, registryVars, factoryVars>>
    /\ UNCHANGED <<wrapperVars, tableVars, callerVars>>

\* The consumer's first next(): let buffer = ''; enter the loop.
BufferFirstNext ==
    /\ bpc = "suspendedStart"
    /\ buffer' = <<>>
    /\ bpc' = "pull"
    /\ UNCHANGED <<bufferSize, yielded, bufOutcome>>
    /\ UNCHANGED <<streamVars, registryVars, factoryVars>>
    /\ UNCHANGED <<wrapperVars, tableVars, callerVars>>

\* for await (const chunk of stream): the source yields the next fragment.
BufferSourceYield ==
    /\ bpc = "pull"
    /\ srcState = "open"
    /\ Len(emitted) < MaxFrags
    /\ \E f \in Fragments :
          /\ emitted' = Append(emitted, f)
          /\ chunk' = f
    /\ bpc' = "append"
    /\ UNCHANGED <<bufferSize, buffer, yielded, bufOutcome>>
    /\ UNCHANGED <<pc, callbacks, srcState, fullResponse, pending, err, outcome,
                   chunkLog, completeLog, errorLog, warnings, trace>>
    /\ UNCHANGED <<registryVars, factoryVars>>
    /\ UNCHANGED <<wrapperVars, tableVars, callerVars>>

\* if (buffer.length) { yield buffer: the threshold is left out of the test.
BufferAppendAnyLength ==
    /\ bpc = "append"
    /\ buffer' = buffer \o chunk
    /\ IF Len(buffer') > 0
       THEN /\ yielded' = Append(yielded, buffer')
            /\ bpc' = "suspendedYield"
       ELSE /\ yielded' = yielded
            /\ bpc' = "pull"
    /\ UNCHANGED <<bufferSize, bufOutcome>>
    /\ UNCHANGED <<streamVars, registryVars, factoryVars>>
    /\ UNCHANGED <<wrapperVars, tableVars, callerVars>>

\* if (buffer.length > bufferSize) { yield buffer: a buffer of exactly
\* bufferSize characters is carried on.
BufferAppendStrict ==
    /\ bpc = "append"
    /\ buffer' = buffer \o chunk
    /\ IF Len(buffer') > bufferSize
       THEN /\ yielded' = Append(yielded, buffer')
            /\ bpc' = "suspendedYield"
       ELSE /\ yielded' = yielded
            /\ bpc' = "pull"
    /\ UNCHANGED <<bufferSize, bufOutcome>>
    /\ UNCHANGED <<streamVars, registryVars, factoryVars>>
    /\ UNCHANGED <<wrapperVars, tableVars, callerVars>>

\* if (bufferSize > 0 && buffer.length >= bufferSize) { yield buffer: a
\* threshold that is not positive switches the test off.
BufferAppendPositiveOnly ==
    /\ bpc = "append"
    /\ buffer' = buffer \o chunk
    /\ IF bufferSize > 0 /\ Len(buffer') >= bufferSize
       THEN /\ yielded' = Append(yielded, buffer')
            /\ bpc' = "suspendedYield"
       ELSE /\ yielded' = yielded
            /\ bpc' = "pull"
    /\ UNCHANGED <<bufferSize, bufOutcome>>
    /\ UNCHANGED <<streamVars, registryVars, factoryVars>>
    /\ UNCHANGED <<wrapperVars, tableVars, callerVars>>

\* The re-chunking done eagerly: a chunk that reached the threshold is put
\* out and the loop goes on to the next fragment without waiting for the
\* consumer.
BufferAppendEager ==
    /\ bpc = "append"
    /\ IF Len(buffer \o chunk) >= bufferSize
       THEN /\ yielded' = Append(yielded, buffer \o chunk)
            /\ buffer' = <<>>
       ELSE /\ yielded' = yielded
            /\ buffer' = buffer \o chunk
    /\ bpc' = "pull"
    /\ UNCHANGED <<bufferSize, bufOutcome>>
    /\ UNCHANGED <<streamVars, registryVars, factoryVars>>
    /\ UNCHANGED <<wrapperVars, tableVars, callerVars>>

\* buffer += chunk; if (buffer.length >= bufferSize) { yield buffer
BufferAppend ==
    /\ bpc = "append"
    /\ buffer' = buffer \o chunk
    /\ IF Len(buffer') >= bufferSize
       THEN /\ yielded' = Append(yielded, buffer')
            /\ bpc' = "suspendedYield"
       ELSE /\ yielded' = yielded
            /\ bpc' = "pull"
    /\ UNCHANGED <<bufferSize, bufOutcome>>
    /\ UNCHANGED <<streamVars, registryVars, factoryVars>>
    /\ UNCHANGED <<wrapperVars, tableVars, callerVars>>

\* The consumer's next() after a chunk: buffer = ''; back to the loop head.
BufferResume ==
    /\ bpc = "suspendedYield"
    /\ buffer' = <<>>
    /\ bpc' = "pull"
    /\ UNCHANGED <<bufferSize, yielded, bufOutcome>>
    /\ UNCHANGED <<streamVars, registryVars, factoryVars>>
    /\ UNCHANGED <<wrapperVars, tableVars, callerVars>>

\* The source is exhausted and the buffer is yielded whatever it holds:
\* yield buffer without the test if (buffer).
BufferSourceEndAlwaysFlush ==
    /\ bpc = "pull"
    /\ srcState = "open"
    /\ srcState' = "ended"
    /\ yielded' = Append(yielded, buffer)
    /\ bpc' = "suspendedFinal"
    /\ UNCHANGED <<bufferSize, buffer, bufOutcome>>
    /\ UNCHANGED <<pc, callbacks, emitted, chunk, fullResponse, pending, err,
                   outcome, chunkLog, completeLog, errorLog, warnings, trace>>
    /\ UNCHANGED <<registryVars, factoryVars>>
    /\ UNCHANGED <<wrapperVars, tableVars, callerVars>>

\* The source is exhausted and the rest of the buffer is dropped.
BufferSourceEndNoFlush ==
    /\ bpc = "pull"
    /\ srcState = "open"
    /\ srcState' = "ended"
    /\ bpc' = "done"
    /\ bufOutcome' = [kind |-> "ended"]
    /\ UNCHANGED <<bufferSize, buffer, yielded>>
    /\ UNCHANGED <<pc, callbacks, emitted, chunk, fullResponse, pending, err,
                   outcome, chunkLog, completeLog, errorLog, warnings, trace>>
    /\ UNCHANGED <<registryVars, factoryVars>>
    /\ UNCHANGED <<wrapperVars, tableVars, callerVars>>

\* for await (...): the source is exhausted.  if (buffer) { yield buffer }:
\* a non-empty rest is yielded; with an empty one the generator returns.
BufferSourceEnd ==
    /\ bpc = "pull"
    /\ srcState = "open"
    /\ srcState' = "ended"
    /\ IF buffer # <<>>
       THEN /\ yielded' = Append(yielded, buffer)
            /\ bpc' = "suspendedFinal"
            /\ bufOutcome' = bufOutcome
       ELSE /\ yielded' = yielded
            /\ bpc' = "done"
            /\ bufOutcome' = [kind |-> "ended"]
    /\ UNCHANGED <<bufferSize, buffer>>
    /\ UNCHANGED <<pc, callbacks, emitted, chunk, fullResponse, pending, err,
                   outcome, chunkLog, completeLog, errorLog, warnings, trace>>
    /\ UNCHANGED <<registryVars, factoryVars>>
    /\ UNCHANGED <<wrapperVars, tableVars, callerVars>>

\* The loop inside try { ... } finally { if (buffer) yield buffer }: the
\* characters still pending are put out before the failure is raised.
BufferSourceThrowFlushes ==
    /\ bpc = "pull"
    /\ srcState = "open"
    /\ srcState' = "failed"
    /\ \E v \in SourceThrowables : bufOutcome' = [kind |-> "raised", value |-> v]
    /\ yielded' = IF buffer # <<>> THEN Append(yielded, buffer) ELSE yielded
    /\ bpc' = "done"
    /\ UNCHANGED <<bufferSize, buffer>>
    /\ UNCHANGED <<pc, callbacks, emitted, chunk, fullResponse, pending, err,
                   outcome, chunkLog, completeLog, errorLog, warnings, trace>>
    /\ UNCHANGED <<registryVars, factoryVars>>
    /\ UNCHANGED <<wrapperVars, tableVars, callerVars>>

\* for await (...): the source throws.  bufferStream has no handler: the
\* failure reaches the consumer's pending next().
BufferSourceThrow ==
    /\ bpc = "pull"
    /\ srcState = "open"
    /\ srcState' = "failed"
    /\ \E v \in SourceThrowables : bufOutcome' = [kind |-> "raised", value |-> v]
    /\ bpc' = "done"
    /\ UNCHANGED <<bufferSize, buffer, yielded>>
    /\ UNCHANGED <<pc, callbacks, emitted, chunk, fullResponse, pending, err,
                   outcome, chunkLog, completeLog, errorLog, warnings, trace>>
    /\ UNCHANGED <<registryVars, factoryVars>>
    /\ UNCHANGED <<wrapperVars, tableVars, callerVars>>

\* The consumer's next() after the final chunk: the generator returns.
BufferFinish ==
    /\ bpc = "suspendedFinal"
    /\ bpc' = "done"
    /\ bufOutcome' = [kind |-> "ended"]
    /\ UNCHANGED <<bufferSize, buffer, yielded>>
    /\ UNCHANGED <<streamVars, registryVars, factoryVars>>
    /\ UNCHANGED <<wrapperVars, tableVars, callerVars>>

-----------------------------------------------------------------------------
(* streamToString and the handleStream function: streaming.ts lines 44-46, 76-82 *)

\* The StreamCallbacks object without observers: {}
NoObservers == [onChunk |-> FALSE, onComplete |-> FALSE, onError |-> FALSE]

\* The arguments a caller of the handleStream function may pass for
\* `callbacks?`: a StreamCallbacks object, or nothing.
CallbackArgs == CallbackSets \cup {Undefined}

\* callbacks: StreamCallbacks = {}: the default of the method's parameter
\* stands in for an argument that is undefined.
DefaultCallbacks(arg) == IF arg = Undefined THEN NoObservers ELSE arg

\* No drain has begun; a drain begun by StartDrain is a call of the method
\* itself.
WrapperIdle ==
    /\ entry = "method"
    /\ passed = Undefined
    /\ result = [kind |-> "none"]

\* streamToString(stream): return this.handleStream(stream); the method is
\* entered without a second argument.
StreamToString ==
    /\ pc = "idle"
    /\ entry' = "streamToString"
    /\ passed' = Undefined
    /\ callbacks' = DefaultCallbacks(Undefined)
    /\ fullResponse' = <<>>
    /\ pc' = "next"
    /\ trace' = Append(trace, Event("start", 0))
    /\ UNCHANGED <<emitted, srcState, chunk, pending, err, outcome, chunkLog,
                   completeLog, errorLog, warnings>>
    /\ UNCHANGED result
    /\ UNCHANGED <<registryVars, factoryVars, bufferVars, tableVars, callerVars>>

\* The function calling manager.handleStream(stream): the callbacks argument
\* is not handed on.
HandleStreamFunctionDropsCallbacks ==
    /\ pc = "idle"
    /\ entry' = "function"
    /\ \E a \in CallbackArgs : passed' = a
    /\ callbacks' = DefaultCallbacks(Undefined)
    /\ fullResponse' = <<>>
    /\ pc' = "next"
    /\ trace' = Append(trace, Event("start", 0))
    /\ UNCHANGED <<emitted, srcState, chunk, pending, err, outcome, chunkLog,
                   completeLog, errorLog, warnings>>
    /\ UNCHANGED result
    /\ UNCHANGED <<registryVars, factoryVars, bufferVars, tableVars, callerVars>>

\* handleStream(stream, callbacks?): const manager = new StreamManager();
\* return manager.handleStream(stream, callbacks); the method is entered with
\* the argument as passed.
HandleStreamFunction ==
    /\ pc = "idle"
    /\ entry' = "function"
    /\ \E a \in CallbackArgs :
          /\ passed' = a
          /\ callbacks' = DefaultCallbacks(a)
    /\ fullResponse' = <<>>
    /\ pc' = "next"
    /\ trace' = Append(trace, Event("start", 0))
    /\ UNCHANGED <<emitted, srcState, chunk, pending, err, outcome, chunkLog,
                   completeLog, errorLog, warnings>>
    /\ UNCHANGED result
    /\ UNCHANGED <<registryVars, factoryVars, bufferVars, tableVars, callerVars>>

\* return <the method's promise>: the promise of the entry point settles as
\* the promise of the method did.
WrapperSettle ==
    /\ pc = "done"
    /\ entry # "method"
    /\ result.kind = "none"
    /\ result' = outcome
    /\ UNCHANGED <<entry, passed>>
    /\ UNCHANGED <<streamVars, registryVars, factoryVars, bufferVars, tableVars, callerVars>>

-----------------------------------------------------------------------------
(* PROVIDER_CAPABILITIES: capabilities.ts (index.ts lines 52-134) *)

\* Largest number of lookups the callers make in the table.
MaxLookups == 3

\* features?: { functionCalling?, jsonMode?, toolUse? }: each flag is true or
\* not set; `defined` tells whether the descriptor has the property at all.
Features(defined, functionCalling, jsonMode, toolUse) ==
    [defined |-> defined, functionCalling |-> functionCalling,
     jsonMode |-> jsonMode, toolUse |-> toolUse]

\* The object literal PROVIDER_CAPABILITIES: its own properties.
PROVIDER_CAPABILITIES ==
    [t \in ProviderTypes |->
        CASE t = "openai" ->
                [supportsStreaming |-> TRUE, supportsEmbeddings |-> TRUE,
                 supportsVision |-> TRUE, requiresApiKey |-> TRUE,
                 maxContextLength |-> 128000,
                 features |-> Features(TRUE, "true", "true", "true")]
          [] t = "anthropic" ->
                [supportsStreaming |-> TRUE, supportsEmbeddings |-> FALSE,
                 supportsVision |-> TRUE, requiresApiKey |-> TRUE,
                 maxContextLength |-> 200000,
                 features |-> Features(TRUE, "true", "unset", "true")]
          [] t = "gemini" ->
                [supportsStreaming |-> TRUE, supportsEmbeddings |-> FALSE,
                 supportsVision |-> TRUE, requiresApiKey |-> TRUE,
                 maxContextLength |-> 1000000,
                 features |-> Features(TRUE, "true", "unset", "unset")]
          [] t = "ollama" ->
                [supportsStreaming |-> TRUE, supportsEmbeddings |-> TRUE,
                 supportsVision |-> FALSE, requiresApiKey |-> FALSE,
                 maxContextLength |-> 4096,
                 features |-> Features(FALSE, "unset", "unset", "unset")]]

\* An object literal inherits from Object.prototype: some of the property
\* names every such object answers to.
ObjectPrototypeKeys == {"constructor", "toString"}

\* The strings a caller may look up: the closed set, a string that names
\* nothing, and names of Object.prototype.
CapabilityKeys == ProviderTypes \cup {"unknown"} \cup ObjectPrototypeKeys

\* PROVIDER_CAPABILITIES[id]: property access on the object literal.  An own
\* property gives its descriptor; a name found on the prototype chain gives
\* the inherited member; anything else gives undefined.
PropertyGet(id) ==
    IF id \in DOMAIN PROVIDER_CAPABILITIES
    THEN [kind |-> "descriptor", value |-> PROVIDER_CAPABILITIES[id]]
    ELSE IF id \in ObjectPrototypeKeys
         THEN [kind |-> "inherited", name |-> id]
         ELSE Undefined

\* The module has been loaded; no lookup has been made.
TableNew == capLog = <<>>

\* const caps = PROVIDER_CAPABILITIES[id]
Lookup(id) ==
    /\ Len(capLog) < MaxLookups
    /\ capLog' = Append(capLog, [key |-> id, val |-> PropertyGet(id)])
    /\ UNCHANGED <<streamVars, registryVars, factoryVars, bufferVars,
                   wrapperVars, callerVars>>

-----------------------------------------------------------------------------
(* Provider objects shared with the callers: base.ts lines 14-25 *)

\* Largest number of Provider objects the callers construct when they also
\* change them.
MaxOwned == 2

\* The values a caller may assign to currentModel.
Models == {"default", "other"}

\* The identifiers the callers give to the objects they construct and change.
OwnedTypes == {"openai", "gemini"}

\* Code outside the registry assigns to a Provider object it holds:
\* provider.currentModel = m
SetCurrentModel(p, m) ==
    /\ p \in 1..Len(objs)
    /\ objs' = [objs EXCEPT ![p].currentModel = m]
    /\ UNCHANGED <<providers, ret, lastReg, firstOrder>>
    /\ UNCHANGED <<streamVars, factoryVars, bufferVars>>
    /\ UNCHANGED <<wrapperVars, tableVars, callerVars>>

\* Code outside the registry assigns to a Provider object it holds:
\* provider.type = t
SetType(p, t) ==
    /\ p \in 1..Len(objs)
    /\ objs' = [objs EXCEPT ![p].type = t]
    /\ UNCHANGED <<providers, ret, lastReg, firstOrder>>
    /\ UNCHANGED <<streamVars, factoryVars, bufferVars>>
    /\ UNCHANGED <<wrapperVars, tableVars, callerVars>>

-----------------------------------------------------------------------------
(* The callers: what they hold between their calls *)

\* The callers hold nothing yet and have not wished to stop a drain.
CallerIdle ==
    /\ cancel = [raised |-> FALSE, at |-> 0]
    /\ held = [from |-> "none", val |-> <<>>]
    /\ callerRegistry = [present |-> FALSE, map |-> <<>>]

\* A caller of handleStream(stream, callbacks) wishes to stop the drain it
\* began.  The method has the two parameters `stream` and `callbacks`: the
\* wish stays with the caller.  `at` is the number of fragments the source
\* had yielded by then.
CallerCancels ==
    /\ pc \notin {"idle", "done"}
    /\ ~cancel.raised
    /\ cancel' = [raised |-> TRUE, at |-> Len(emitted)]
    /\ UNCHANGED <<held, callerRegistry>>
    /\ UNCHANGED <<streamVars, registryVars, factoryVars, bufferVars>>
    /\ UNCHANGED <<wrapperVars, tableVars>>

\* const ids = registry.list() / const all = registry.getAll(): the caller
\* keeps the array that Array.from(...) made for it.
CallerKeepsArray ==
    /\ ret.op \in {"list", "getAll"}
    /\ held.from = "none"
    /\ held' = [from |-> ret.op, val |-> ret.val]
    /\ UNCHANGED <<cancel, callerRegistry>>
    /\ UNCHANGED <<streamVars, registryVars, factoryVars, bufferVars>>
    /\ UNCHANGED <<wrapperVars, tableVars>>

\* The caller changes the array it keeps (a string[] or Provider[], both
\* mutable): held.pop() or held.shift().
CallerChangesArray ==
    /\ held.from # "none"
    /\ held.val # <<>>
    /\ \/ held' = [held EXCEPT !.val = SubSeq(held.val, 1, Len(held.val) - 1)]
       \/ held' = [held EXCEPT !.val = Tail(held.val)]
    /\ UNCHANGED <<cancel, callerRegistry>>
    /\ UNCHANGED <<streamVars, registryVars, factoryVars, bufferVars>>
    /\ UNCHANGED <<wrapperVars, tableVars>>

\* const mine = ProviderRegistry.createDefault(): the caller keeps the
\* registry returned to it; the helper's call is over.
CallerKeepsRegistry ==
    /\ fpc = "done"
    /\ fop = "createDefault"
    /\ ~callerRegistry.present
    /\ callerRegistry' = [present |-> TRUE, map |-> providers]
    /\ fpc' = "idle"
    /\ fop' = "none"
    /\ step' = 1
    /\ attempts' = <<>>
    /\ snapshot' = <<>>
    /\ idx' = 1
    /\ available' = <<>>
    /\ valLog' = <<>>
    /\ fresult' = [kind |-> "none"]
    /\ UNCHANGED <<cancel, held>>
    /\ UNCHANGED <<streamVars, registryVars, bufferVars>>
    /\ UNCHANGED <<wrapperVars, tableVars>>

\* mine.register(provider): this.providers.set(provider.type, provider) on
\* the registry the caller keeps, with a Provider object that exists.
CallerRegisters(p) ==
    /\ callerRegistry.present
    /\ p \in 1..Len(objs)
    /\ callerRegistry' = [callerRegistry EXCEPT !.map = MapSet(@, objs[p].type, p)]
    /\ UNCHANGED <<cancel, held>>
    /\ UNCHANGED <<streamVars, registryVars, factoryVars, bufferVars>>
    /\ UNCHANGED <<wrapperVars, tableVars>>

-----------------------------------------------------------------------------
(* Specifications *)

InitStream ==
    /\ StreamIdle /\ RegistryNew /\ FactoryIdle /\ BufferIdle /\ WrapperIdle
    /\ TableNew /\ CallerIdle

NextStream ==
    \/ StartDrain
    \/ SourceYield
    \/ SourceEnd
    \/ SourceThrow
    \/ Accumulate
    \/ CallOnChunk
    \/ OnChunkReturn
    \/ OnChunkThrow
    \/ Complete
    \/ CompleteThrow
    \/ Return
    \/ Catch
    \/ OnError
    \/ OnErrorThrow
    \/ Throw

SpecStream == InitStream /\ [][NextStream]_vars

\* The steps of a drain that has begun: the source settles each request and
\* each observer call returns or throws, and the continuation of the async
\* method is then run by the event loop.
DrainStep ==
    \/ SourceYield
    \/ SourceEnd
    \/ SourceThrow
    \/ Accumulate
    \/ CallOnChunk
    \/ OnChunkReturn
    \/ OnChunkThrow
    \/ Complete
    \/ CompleteThrow
    \/ Return
    \/ Catch
    \/ OnError
    \/ OnErrorThrow
    \/ Throw

\* SpecStream for a source and observers that settle every call made to them.
SpecStreamFair == InitStream /\ [][NextStream]_vars /\ WF_vars(DrainStep)

InitSnapshots ==
    /\ StreamIdle /\ RegistryNew /\ FactoryIdle /\ BufferIdle /\ WrapperIdle
    /\ TableNew /\ CallerIdle

NextSnapshots ==
    \/ \E t \in OwnedTypes : Len(objs) < MaxOwned /\ Construct(t)
    \/ \E p \in 1..MaxOwned : Register(p)
    \/ \E t \in LookupIds : Get(t)
    \/ \E t \in LookupIds : Has(t)
    \/ List
    \/ GetAll
    \/ CallerKeepsArray
    \/ CallerChangesArray

SpecSnapshots == InitSnapshots /\ [][NextSnapshots]_vars

InitRegistries ==
    /\ StreamIdle /\ RegistryNew /\ FactoryIdle /\ BufferIdle /\ WrapperIdle
    /\ TableNew /\ CallerIdle

NextRegistries ==
    \/ CallCreateDefault
    \/ CallDetectAvailable
    \/ TryRegister
    \/ TrySkip
    \/ CreateDefaultReturn
    \/ DetectGetAll
    \/ ValidateCall
    \/ ValidateTrue
    \/ ValidateFalse
    \/ ValidateThrow
    \/ DetectReturn
    \/ CallerKeepsRegistry
    \/ \E p \in 1..Len(objs) : CallerRegisters(p)

SpecRegistries == InitRegistries /\ [][NextRegistries]_vars

InitCancel ==
    /\ StreamIdle /\ RegistryNew /\ FactoryIdle /\ BufferIdle /\ WrapperIdle
    /\ TableNew /\ CallerIdle

NextCancel ==
    \/ StartDrain
    \/ SourceYield
    \/ SourceEnd
    \/ SourceThrow
    \/ Accumulate
    \/ CallOnChunk
    \/ OnChunkReturn
    \/ OnChunkThrow
    \/ Complete
    \/ CompleteThrow
    \/ Return
    \/ Catch
    \/ OnError
    \/ OnErrorThrow
    \/ Throw
    \/ CallerCancels

SpecCancel == InitCancel /\ [][NextCancel]_vars

InitRegistry ==
    /\ StreamIdle /\ RegistryNew /\ FactoryIdle /\ BufferIdle /\ WrapperIdle
    /\ TableNew /\ CallerIdle

NextRegistry ==
    \/ \E t \in ProviderTypes : Construct(t)
    \/ \E p \in 1..MaxInst : Register(p)
    \/ \E t \in LookupIds : Get(t)
    \/ \E t \in LookupIds : Has(t)
    \/ List
    \/ GetAll

SpecRegistry == InitRegistry /\ [][NextRegistry]_vars

InitFactory ==
    /\ StreamIdle /\ RegistryNew /\ FactoryIdle /\ BufferIdle /\ WrapperIdle
    /\ TableNew /\ CallerIdle

NextFactory ==
    \/ CallCreateDefault
    \/ CallDetectAvailable
    \/ TryRegister
    \/ TrySkip
    \/ CreateDefaultReturn
    \/ DetectGetAll
    \/ ValidateCall
    \/ ValidateTrue
    \/ ValidateFalse
    \/ ValidateThrow
    \/ DetectReturn

SpecFactory == InitFactory /\ [][NextFactory]_vars

\* The steps of a helper that has been called: the constructors return or
\* throw, every validateConfig promise settles, and the event loop then runs
\* the continuation of the async helper.
HelperRuns ==
    \/ TryRegister
    \/ TrySkip
    \/ CreateDefaultReturn
    \/ DetectGetAll
    \/ ValidateCall
    \/ ValidateTrue
    \/ ValidateFalse
    \/ ValidateThrow
    \/ DetectReturn

\* SpecFactory for providers whose validateConfig settles every call.
SpecFactoryFair == InitFactory /\ [][NextFactory]_vars /\ WF_vars(HelperRuns)

InitBuffer ==
    /\ StreamIdle /\ RegistryNew /\ FactoryIdle /\ BufferIdle /\ WrapperIdle
    /\ TableNew /\ CallerIdle

NextBuffer ==
    \/ BufferCall
    \/ BufferFirstNext
    \/ BufferSourceYield
    \/ BufferAppend
    \/ BufferResume
    \/ BufferSourceEnd
    \/ BufferSourceThrow
    \/ BufferFinish

SpecBuffer == InitBuffer /\ [][NextBuffer]_vars

InitWrappers ==
    /\ StreamIdle /\ RegistryNew /\ FactoryIdle /\ BufferIdle /\ WrapperIdle
    /\ TableNew /\ CallerIdle

NextWrappers ==
    \/ StartDrain
    \/ StreamToString
    \/ HandleStreamFunction
    \/ SourceYield
    \/ SourceEnd
    \/ SourceThrow
    \/ Accumulate
    \/ CallOnChunk
    \/ OnChunkReturn
    \/ OnChunkThrow
    \/ Complete
    \/ CompleteThrow
    \/ Return
    \/ Catch
    \/ OnError
    \/ OnErrorThrow
    \/ Throw
    \/ WrapperSettle

SpecWrappers == InitWrappers /\ [][NextWrappers]_vars

InitTable ==
    /\ StreamIdle /\ RegistryNew /\ FactoryIdle /\ BufferIdle /\ WrapperIdle
    /\ TableNew /\ CallerIdle

NextTable == \E id \in CapabilityKeys : Lookup(id)

SpecTable == InitTable /\ [][NextTable]_vars

InitOwnership ==
    /\ StreamIdle /\ RegistryNew /\ FactoryIdle /\ BufferIdle /\ WrapperIdle
    /\ TableNew /\ CallerIdle

NextOwnership ==
    \/ \E t \in OwnedTypes : Len(objs) < MaxOwned /\ Construct(t)
    \/ \E p \in 1..MaxOwned : Register(p)
    \/ \E t \in LookupIds : Get(t)
    \/ \E t \in LookupIds : Has(t)
    \/ List
    \/ GetAll
    \/ \E p \in 1..MaxOwned, m \in Models : SetCurrentModel(p, m)
    \/ \E p \in 1..MaxOwned, t \in OwnedTypes : SetType(p, t)

SpecOwnership == InitOwnership /\ [][NextOwnership]_vars

-----------------------------------------------------------------------------
(* Properties of handleStream, checked under SpecStream *)

\* Positions in the history of the step ev for fragment number n.
Pos(ev, n) == { i \in 1..Len(trace) : trace[i] = Event(ev, n) }

Finished == pc = "done"
Returned == outcome.kind = "returned"
Raised == outcome.kind = "raised"

\* C1: for every fragment sequence that ends normally, handleStream returns
\* exactly the concatenation of all fragments in emission order, whatever
\* observers are supplied.
C1_ReturnsConcatenation ==
    (Finished /\ srcState = "ended") =>
        (Returned /\ outcome.value = Concat(emitted))

\* What the code does guarantee of a returned value: handleStream returns only
\* after the source has ended, and then returns the concatenation of all
\* fragments in emission order.
ReturnedValueIsConcatenation ==
    Returned => (srcState = "ended" /\ outcome.value = Concat(emitted))

\* C2: with an onChunk observer, handleStream calls it exactly once per
\* fragment, in arrival order, with that fragment, after the fragment has been
\* appended to the accumulator and before the next fragment is requested; no
\* fragment is requested while an observer call is running.
C2_OnChunkOncePerFragmentInOrder ==
    callbacks.onChunk =>
        \* the calls so far were made with the fragments, in arrival order
        /\ Len(chunkLog) <= Len(emitted)
        /\ chunkLog = SubSeq(emitted, 1, Len(chunkLog))
        \* outside the loop body every fragment has had its call
        /\ (pc \notin {"accumulate", "callOnChunk"} => chunkLog = emitted)
        \* the observer runs with the fragment already in the accumulator
        /\ (pc = "inOnChunk" => fullResponse = Concat(emitted))
        /\ \A i \in 1..Len(emitted) :
              LET calls == Pos("chunkCall", i)
                  exits == Pos("chunkRet", i) \cup Pos("chunkThrow", i)
              IN  /\ Cardinality(calls) <= 1
                  /\ Cardinality(exits) <= Cardinality(calls)
                  \* append before call, call before its exit
                  /\ \A c \in calls : \E a \in Pos("append", i) : a < c
                  /\ \A x \in exits : \E c \in calls : c < x
                  \* the request for the next fragment follows the exit
                  /\ \A q \in Pos("pull", i + 1) :
                        /\ calls # {}
                        /\ \E x \in exits : x < q
        \* while the observer runs, the last step taken is its call
        /\ (pc = "inOnChunk" => trace[Len(trace)].ev = "chunkCall")

\* C2 witness: a finished drain of at least two different fragments with an
\* onChunk observer that threw at least once.
C2_Witness ==
    /\ Finished
    /\ callbacks.onChunk
    /\ Len(emitted) >= 2
    /\ emitted[1] # emitted[2]
    /\ warnings >= 1
    /\ Len(chunkLog) = Len(emitted)

\* C3: if the onChunk observer throws on some of its calls, handleStream still
\* consumes the whole source, still calls the observer for every later
\* fragment, does not raise, and returns the full concatenation.
C3_ThrowingOnChunkStillReturnsAll ==
    (Finished /\ srcState = "ended" /\ callbacks.onChunk /\ warnings >= 1) =>
        /\ chunkLog = emitted
        /\ ~Raised
        /\ Returned /\ outcome.value = Concat(emitted)

\* What the code does guarantee when onChunk throws: the loop goes on, and the
\* accumulator and the later observer calls are those of a drain whose
\* observer never throws.
ThrowingOnChunkLosesNothing ==
    (callbacks.onChunk /\ pc \in {"next", "complete", "return"}) =>
        (chunkLog = emitted /\ fullResponse = Concat(emitted))

\* C4: when the source is exhausted without failing, onComplete (if supplied)
\* is called exactly once, after every onChunk call, with the full accumulated
\* string, and handleStream returns that same string.
C4_CompleteOnceThenReturn ==
    (Finished /\ srcState = "ended") =>
        /\ (callbacks.onComplete => completeLog = << Concat(emitted) >>)
        /\ \A c \in Pos("complete", 0) :
              \A i \in 1..Len(emitted) : \A k \in Pos("chunkCall", i) : k < c
        /\ Returned
        /\ (callbacks.onComplete => outcome.value = completeLog[1])

\* C5: if the source fails, after any number of fragments, handleStream calls
\* onError (if supplied) exactly once, then raises, and never calls onComplete.
C5_SourceFailureErrorOnceThenRaise ==
    srcState = "failed" =>
        /\ completeLog = <<>>
        /\ Pos("complete", 0) = {}
        /\ Len(errorLog) <= 1
        /\ (~callbacks.onError => errorLog = <<>>)
        /\ (Finished =>
              /\ Raised
              /\ (callbacks.onError => Len(errorLog) = 1)
              /\ \A e \in Pos("error", 0) : \E r \in Pos("raise", 0) : e < r)
        /\ (Raised => Finished)

\* C5 witness: a finished drain whose source failed after at least one
\* fragment, with all three observers supplied.
C5_Witness ==
    /\ Finished
    /\ srcState = "failed"
    /\ Len(emitted) >= 1
    /\ callbacks.onError /\ callbacks.onComplete /\ callbacks.onChunk
    /\ Len(errorLog) = 1

\* C6: a source failure is always surfaced: whenever the source fails,
\* handleStream ends by raising and never returns a string, with or without an
\* onError observer.
C6_SourceFailureAlwaysRaised ==
    srcState = "failed" =>
        /\ ~Returned
        /\ (Finished => Raised)

\* C6 witness: a finished drain whose source failed with text already
\* accumulated and no onError observer.
C6_Witness ==
    /\ Finished
    /\ srcState = "failed"
    /\ ~callbacks.onError
    /\ fullResponse # <<>>
    /\ Raised

\* C7: a failure thrown by any observer (onChunk, onComplete or onError) is
\* downgraded to a warning and never propagated to handleStream's caller: what
\* handleStream raises, if anything, is the failure of the source.
C7_ObserverFailureNeverPropagated ==
    Raised => outcome.value.from = "source"

\* What the code does guarantee of observer failures: those of onChunk alone
\* are downgraded to a warning; handleStream raises a source failure, an
\* onComplete failure, or an onError failure.
OnlyOnChunkFailureIsIsolated ==
    /\ warnings = Cardinality({ i \in 1..Len(trace) : trace[i].ev = "chunkThrow" })
    /\ (Raised => outcome.value.from \in {"source", "onComplete", "onError"})
    /\ (Raised /\ srcState = "ended" => callbacks.onComplete)

\* C8: draining an empty fragment sequence returns the empty string, calls
\* onComplete (if supplied) exactly once with the empty string, and calls
\* neither onChunk nor onError.
C8_EmptySourceDrain ==
    (Finished /\ srcState = "ended" /\ emitted = <<>>) =>
        /\ Returned /\ outcome.value = <<>>
        /\ completeLog = (IF callbacks.onComplete THEN << <<>> >> ELSE <<>>)
        /\ chunkLog = <<>>
        /\ errorLog = <<>>

-----------------------------------------------------------------------------
(* Properties of ProviderRegistry, checked under SpecRegistry *)

\* C9: after register(p), get(p.type) returns p; after any sequence of
\* register calls, get(id) returns the object most recently registered under
\* id.
C9_GetReturnsMostRecentlyRegistered ==
    /\ \A t \in ProviderTypes :
          lastReg[t] # 0 => MapGet(providers, t) = Ref(lastReg[t])
    /\ (ret.op = "register" => MapGet(providers, objs[ret.arg].type) = Ref(ret.arg))
    /\ (ret.op = "get" /\ ret.arg \in ProviderTypes /\ lastReg[ret.arg] # 0
          => ret.val = Ref(lastReg[ret.arg]))

\* C9 witness: get has just returned the object registered under an identifier
\* for which an older object exists too, with another identifier registered as
\* well.
C9_Witness ==
    /\ ret.op = "get"
    /\ ret.arg \in ProviderTypes
    /\ lastReg[ret.arg] # 0
    /\ \E p \in 1..Len(objs) :
          p # lastReg[ret.arg] /\ objs[p].type = ret.arg /\ p < lastReg[ret.arg]
    /\ Len(providers) >= 2
    /\ ret.val = Ref(lastReg[ret.arg])

\* C10: registering under an identifier that is already registered replaces
\* the stored object and leaves exactly one entry for the identifier: list()
\* has the same length and order as before that register.
C10_ReRegisterReplacesInPlace ==
    (ret.op = "register" /\ ret.replaced) =>
        /\ MapKeys(providers) = ret.keysBefore
        /\ Cardinality({ i \in 1..Len(providers) :
                            providers[i].key = objs[ret.arg].type }) = 1
        /\ MapGet(providers, objs[ret.arg].type) = Ref(ret.arg)

\* C10 witness: a register has just replaced the object stored under an
\* identifier that is not the last of at least two entries, by another object.
C10_Witness ==
    /\ ret.op = "register"
    /\ ret.replaced
    /\ Len(providers) >= 2
    /\ providers[1].key = objs[ret.arg].type
    /\ \E p \in 1..Len(objs) : p # ret.arg /\ objs[p].type = objs[ret.arg].type

-----------------------------------------------------------------------------
(* Properties of the lookups of ProviderRegistry, checked under SpecRegistry *)

\* The identifiers registered so far, by the history of register calls.
Registered == { t \in ProviderTypes : lastReg[t] # 0 }

\* A sequence without repeated elements.
NoRepeats(q) == \A i, j \in 1..Len(q) : q[i] = q[j] => i = j

\* C11: get(id) for an identifier that is not registered (never registered, or
\* outside the closed set) returns undefined, not an exception, and the lookup
\* leaves the registry as it was.
C11_GetOfUnregisteredIsAbsent ==
    /\ [](ret.op = "get" /\ ret.arg \notin Registered => ret.val = Undefined)
    /\ [][ret'.op = "get" =>
             /\ providers' = providers
             /\ ret'.val = MapGet(providers, ret'.arg)]_vars

\* C11 witness: get has just answered undefined for the identifier outside
\* the closed set, and for no other reason than absence: the registry holds
\* entries.
C11_Witness ==
    /\ ret.op = "get"
    /\ ret.arg = "unknown"
    /\ ret.val = Undefined
    /\ Len(providers) >= 2

\* C12: in every reachable state and for every identifier, has(id) is true
\* exactly when get(id) returns an object.
C12_HasIffGetPresent ==
    /\ \A id \in LookupIds :
          /\ MapHas(providers, id) <=> (MapGet(providers, id) # Undefined)
          /\ MapHas(providers, id) <=> (id \in Registered)
    /\ (ret.op = "has" => (ret.val <=> (MapGet(providers, ret.arg) # Undefined)))
    /\ (ret.op = "get" => ((ret.val # Undefined) <=> MapHas(providers, ret.arg)))

\* C12 witness: has has just answered false for an identifier of the closed
\* set while another identifier is registered.
C12_Witness ==
    /\ ret.op = "has"
    /\ ret.arg \in ProviderTypes
    /\ ~ret.val
    /\ Len(providers) >= 1

\* C13: list() holds every registered identifier exactly once and nothing
\* else, in the order in which the identifiers were first registered; a new
\* registry lists nothing.
C13_ListIsFirstRegistrationOrder ==
    /\ MapKeys(providers) = firstOrder
    /\ NoRepeats(MapKeys(providers))
    /\ { providers[i].key : i \in 1..Len(providers) } = Registered
    /\ (Registered = {} => MapKeys(providers) = <<>>)
    /\ (ret.op = "list" => ret.val = firstOrder)

\* C13 witness: list has just returned two identifiers of which the first was
\* registered again after the second.
C13_Witness ==
    /\ ret.op = "list"
    /\ Len(ret.val) = 2
    /\ lastReg[ret.val[1]] > lastReg[ret.val[2]]
    /\ \E p \in 1..Len(objs) :
          p # lastReg[ret.val[1]] /\ objs[p].type = ret.val[1]

-----------------------------------------------------------------------------
(* Properties of createDefault and detectAvailable, checked under SpecFactory *)

\* createDefault has run all its try blocks.
Created == fpc # "idle" /\ step > Len(DefaultOrder)

\* The identifiers whose construction threw.
FailedTypes == { attempts[i].type : i \in { j \in 1..Len(attempts) : ~attempts[j].ok } }

\* The outcome of validateConfig for the object of identifier t ("none" when
\* it was not called).
ValidationOf(t) ==
    LET hits == { i \in 1..Len(valLog) : objs[valLog[i].ref].type = t }
    IN  IF hits = {} THEN "none" ELSE valLog[CHOOSE i \in hits : TRUE].outcome

\* C15: createDefault() never raises, whichever constructions fail, and the
\* registry it returns holds between 0 and 4 providers.
C15_CreateDefaultNeverRaises ==
    /\ fresult.kind # "raised"
    /\ Len(providers) <= Cardinality(ProviderTypes)
    /\ (fop = "createDefault" /\ fpc = "done" =>
          /\ fresult.kind = "returned"
          /\ Len(fresult.value) >= 0
          /\ Len(fresult.value) <= Cardinality(ProviderTypes)
          /\ Len(fresult.value) = Len(attempts) - Cardinality(FailedTypes))
    /\ (fpc = "create" /\ step > Len(DefaultOrder) => Len(attempts) = Len(DefaultOrder))

\* C15 witness: createDefault has returned a registry after some
\* constructions threw and some did not.
C15_Witness ==
    /\ fop = "createDefault"
    /\ fpc = "done"
    /\ FailedTypes # {}
    /\ Len(providers) >= 1
    /\ fresult.kind = "returned"

\* C16: in createDefault() each construction is attempted whatever the outcome
\* of the others: for every set F of failing constructions all four are
\* attempted, and list() of the result is [openai, anthropic, gemini, ollama]
\* without the members of F, in that order.
C16_CreateDefaultIsolatesFailures ==
    /\ Len(attempts) <= Len(DefaultOrder)
    /\ \A i \in 1..Len(attempts) : attempts[i].type = DefaultOrder[i]
    /\ (Created =>
          /\ Len(attempts) = Len(DefaultOrder)
          /\ MapKeys(providers) =
                SelectSeq(DefaultOrder, LAMBDA t : t \notin FailedTypes))

\* C16 witness: createDefault has returned after the first and the third
\* construction threw and the two others did not.
C16_Witness ==
    /\ fop = "createDefault"
    /\ fpc = "done"
    /\ FailedTypes = {"openai", "gemini"}
    /\ MapKeys(providers) = <<"anthropic", "ollama">>

\* C17: detectAvailable() returns exactly the identifiers of the instances of
\* its default registry whose validateConfig returned true: an instance whose
\* validation returns false or raises is left out, no identifier appears
\* twice, and detectAvailable does not raise.
C17_DetectKeepsExactlyTheValid ==
    fop = "detectAvailable" =>
        /\ fresult.kind # "raised"
        /\ NoRepeats(available)
        /\ { available[i] : i \in 1..Len(available) } =
              { objs[valLog[i].ref].type :
                    i \in { j \in 1..Len(valLog) : valLog[j].outcome = "true" } }
        /\ (fpc = "done" =>
              /\ fresult.kind = "returned"
              /\ fresult.value = available
              /\ \A i \in 1..Len(snapshot) :
                    ValidationOf(objs[snapshot[i].ref].type) \in {"true", "false", "throws"}
              /\ \A i \in 1..Len(snapshot) :
                    LET t == objs[snapshot[i].ref].type
                    IN  (\E k \in 1..Len(fresult.value) : fresult.value[k] = t)
                            <=> ValidationOf(t) = "true")

\* C17 witness: detectAvailable has returned after one validation returned
\* true, one returned false and one raised.
C17_Witness ==
    /\ fop = "detectAvailable"
    /\ fpc = "done"
    /\ \E i, j, k \in 1..Len(valLog) :
          /\ valLog[i].outcome = "true"
          /\ valLog[j].outcome = "false"
          /\ valLog[k].outcome = "throws"
    /\ Len(fresult.value) = 1

\* C18: the result of detectAvailable() is a subset of the identifiers
\* registered in the default registry createDefault() built for it.
C18_DetectedAreRegistered ==
    fop = "detectAvailable" =>
        /\ \A i \in 1..Len(available) : MapHas(providers, available[i])
        /\ (fpc = "done" =>
              \A i \in 1..Len(fresult.value) : MapHas(providers, fresult.value[i]))

\* C18 witness: detectAvailable has returned some but not all identifiers of
\* a default registry that itself lacks some of the four.
C18_Witness ==
    /\ fop = "detectAvailable"
    /\ fpc = "done"
    /\ Len(fresult.value) >= 1
    /\ Len(fresult.value) < Len(providers)
    /\ Len(providers) < Len(DefaultOrder)

\* C19: the result of detectAvailable() is determined by the validation
\* outcomes alone: it lists the identifiers that were constructed and whose
\* validation returned true, in createDefault's order (openai, anthropic,
\* gemini, ollama), whenever and in whatever order the validations settle.
C19_DetectResultIsDetermined ==
    (fop = "detectAvailable" /\ fpc = "done") =>
        /\ fresult.value =
              SelectSeq(MapKeys(providers), LAMBDA t : ValidationOf(t) = "true")
        /\ fresult.value =
              SelectSeq(DefaultOrder,
                        LAMBDA t : t \notin FailedTypes /\ ValidationOf(t) = "true")

\* C19 witness: detectAvailable has returned at least two identifiers, with a
\* provider between them left out.
C19_Witness ==
    /\ fop = "detectAvailable"
    /\ fpc = "done"
    /\ Len(fresult.value) >= 2
    /\ fresult.value[1] = "openai"
    /\ fresult.value[2] = "ollama"
    /\ Len(providers) >= 3

-----------------------------------------------------------------------------
(* Properties of bufferStream, checked under SpecBuffer *)

\* C20: for every fragment sequence and every threshold, the chunks
\* bufferStream emits, concatenated in emission order, are the source
\* fragments concatenated in source order, once the source is exhausted.
C20_BufferedConcatenationIsPreserved ==
    /\ (bpc = "pull" => Concat(yielded) \o buffer = Concat(emitted))
    /\ (bpc \in {"suspendedYield", "suspendedFinal"} =>
          Concat(yielded) = Concat(emitted))
    /\ (bpc = "done" /\ bufOutcome.kind = "ended" =>
          Concat(yielded) = Concat(emitted))

\* C20 witness: the derived sequence has ended after at least two chunks, the
\* first made of more than one fragment and the last shorter than the
\* threshold.
C20_Witness ==
    /\ bpc = "done"
    /\ bufOutcome.kind = "ended"
    /\ Len(yielded) >= 2
    /\ Len(emitted) = 3
    /\ yielded[1] = emitted[1] \o emitted[2]
    /\ emitted[1] # <<>> /\ emitted[2] # <<>>
    /\ Len(yielded[Len(yielded)]) < bufferSize

\* The derived sequence has ended normally.
BufferEnded == bpc = "done" /\ bufOutcome.kind = "ended"

\* The last chunk yielded is the one yielded after the source was exhausted.
Flushed == bpc = "suspendedFinal" \/ (BufferEnded /\ buffer # <<>>)

\* C21 (as stated): with a threshold larger than the total input length,
\* bufferStream produces exactly one chunk, the full concatenation of the
\* source fragments.
C21_LargeThresholdGivesOneChunk ==
    (BufferEnded /\ bufferSize > Len(Concat(emitted))) =>
        yielded = << Concat(emitted) >>

\* C21 (amended): with a threshold larger than the total input length,
\* bufferStream produces no chunk before the source is exhausted; then it
\* produces exactly one chunk, the full concatenation of the source fragments,
\* when the total input is not empty, and no chunk at all when it is empty.
C21_LargeThresholdGivesOneChunkUnlessEmpty ==
    /\ (bufferSize > Len(Concat(emitted)) /\ srcState = "open" => yielded = <<>>)
    /\ ((srcState = "ended" /\ bufferSize > Len(Concat(emitted))) =>
          yielded = (IF Concat(emitted) = <<>> THEN <<>> ELSE << Concat(emitted) >>))

\* C21 witness: the derived sequence has ended with one chunk made of two
\* non-empty fragments, under a threshold other than the default.
C21_Witness ==
    /\ BufferEnded
    /\ bufferSize > Len(Concat(emitted))
    /\ bufferSize # DefaultBufferSize
    /\ Len(emitted) >= 2
    /\ emitted[1] # <<>> /\ emitted[2] # <<>>
    /\ yielded = << Concat(emitted) >>

\* C22: for a positive threshold N, bufferStream emits a chunk as soon as a
\* fragment brings the pending buffer to N characters or more and then empties
\* the buffer: every chunk but the final one has at least N characters, and
\* the buffer carried from one fragment to the next has fewer than N.
C22_ChunkAtThresholdThenEmpty ==
    bufferSize > 0 =>
        \* the buffer carried to the next fragment is below the threshold
        /\ (bpc \in {"pull", "append"} => Len(buffer) < bufferSize)
        \* a chunk is the buffer that reached the threshold with the last
        \* fragment, and not before it
        /\ (bpc = "suspendedYield" =>
              /\ yielded[Len(yielded)] = buffer
              /\ Len(buffer) >= bufferSize
              /\ Len(buffer) - Len(chunk) < bufferSize)
        \* after a chunk the buffer starts empty
        /\ (bpc = "pull" => Concat(yielded) \o buffer = Concat(emitted))
        \* every chunk but the one yielded at exhaustion has N characters
        /\ \A i \in 1..Len(yielded) :
              (i < Len(yielded) \/ ~Flushed) => Len(yielded[i]) >= bufferSize

\* C22 witness: under threshold 2 the derived sequence has ended after a chunk
\* longer than the threshold, made of two fragments, and a final chunk shorter
\* than the threshold.
C22_Witness ==
    /\ BufferEnded
    /\ bufferSize = 2
    /\ Len(yielded) = 2
    /\ yielded[1] = emitted[1] \o emitted[2]
    /\ Len(emitted[1]) = 1
    /\ Len(yielded[1]) > bufferSize
    /\ Len(yielded[2]) < bufferSize

\* C23: when the source is exhausted, the pending buffer is emitted exactly
\* once as a final chunk if it holds at least one character (even if shorter
\* than the threshold), and no final chunk is emitted if it is empty; after
\* that the derived sequence ends.
C23_FinalChunkOnceIfNonEmpty ==
    \* the step that finds the source exhausted yields the buffer if and only
    \* if it is not empty
    /\ [][srcState = "open" /\ srcState' = "ended" =>
             /\ yielded' = (IF buffer # <<>> THEN Append(yielded, buffer) ELSE yielded)
             /\ (buffer = <<>> => bpc' = "done" /\ bufOutcome'.kind = "ended")]_vars
    \* nothing is yielded after it, and the next step ends the sequence
    /\ [][srcState = "ended" =>
             /\ yielded' = yielded
             /\ bpc' = "done" /\ bufOutcome'.kind = "ended"]_vars
    /\ [](srcState = "ended" => bpc \in {"suspendedFinal", "done"})
    /\ [](bpc = "suspendedFinal" => buffer # <<>> /\ yielded[Len(yielded)] = buffer)

\* C23 witness: the derived sequence has ended with a single chunk, yielded at
\* exhaustion from two fragments and shorter than the threshold.
C23_Witness ==
    /\ BufferEnded
    /\ Len(yielded) = 1
    /\ Len(emitted) = 2
    /\ emitted[1] # <<>> /\ emitted[2] # <<>>
    /\ yielded[1] = buffer
    /\ Len(buffer) < bufferSize
    /\ bufferSize <= MaxBufferSize

\* C24: for threshold 0 and for every negative threshold bufferStream emits
\* every fragment immediately: the output has one chunk per source fragment
\* and equals the source sequence fragment for fragment.
C24_NonPositiveThresholdEmitsEachFragment ==
    bufferSize <= 0 =>
        /\ (bpc = "append" => yielded = SubSeq(emitted, 1, Len(emitted) - 1))
        /\ (bpc # "append" => yielded = emitted)
        /\ (bpc = "pull" => buffer = <<>>)
        /\ (bpc = "suspendedYield" => yielded[Len(yielded)] = chunk)
        /\ bpc # "suspendedFinal"

\* C24 witness: under a negative threshold the derived sequence has ended
\* after three fragments, one of them empty, with three chunks.
C24_Witness ==
    /\ BufferEnded
    /\ bufferSize < 0
    /\ Len(emitted) = 3
    /\ \E i \in 1..3 : emitted[i] = <<>>
    /\ \E i \in 1..3 : emitted[i] # <<>>
    /\ Len(yielded) = 3

-----------------------------------------------------------------------------
(* Properties of the entry points of handleStream, checked under SpecWrappers *)

\* What the method does for a source when it has no observers: it returns the
\* concatenation of the fragments of a source that ends, and raises the
\* normalized failure of a source that fails.
DrainedWithoutObservers ==
    /\ chunkLog = <<>> /\ completeLog = <<>> /\ errorLog = <<>> /\ warnings = 0
    /\ (Finished /\ srcState = "ended" =>
          outcome = [kind |-> "returned", value |-> Concat(emitted)])
    /\ (Finished /\ srcState = "failed" =>
          /\ Raised
          /\ outcome.value.from = "source"
          /\ outcome.value.isError)

\* C25: streamToString and the handleStream function are the same operation
\* as the method: streamToString(s) runs the method without observers and has
\* its outcome; handleStream(s, callbacks) runs the method with the observers
\* it was given (none when callbacks is omitted), makes the method's observer
\* calls and has its outcome.
C25_EntryPointsAreTheMethod ==
    /\ (entry = "streamToString" =>
          /\ callbacks = NoObservers
          /\ DrainedWithoutObservers)
    /\ (entry = "function" =>
          /\ callbacks = DefaultCallbacks(passed)
          /\ (passed = Undefined => DrainedWithoutObservers))
    \* the method begun directly with no observers does the same
    /\ (entry = "method" /\ pc # "idle" /\ callbacks = NoObservers =>
          DrainedWithoutObservers)
    \* the promise of the entry point settles as the method's did
    /\ (result.kind # "none" => Finished /\ result = outcome)
    /\ (entry = "method" => result.kind = "none")

\* C25 witness: the handleStream function, called with all three observers on
\* a source that failed after a fragment, has raised after the observer
\* calls of the method.
C25_Witness ==
    /\ entry = "function"
    /\ passed = [onChunk |-> TRUE, onComplete |-> TRUE, onError |-> TRUE]
    /\ srcState = "failed"
    /\ result.kind = "raised"
    /\ result.value.from = "source"
    /\ Len(chunkLog) >= 1
    /\ Len(errorLog) = 1

-----------------------------------------------------------------------------
(* Properties of concurrent use of ProviderRegistry, checked under SpecRegistry *)

\* The sequential registry: what get(t) returns after the register calls
\* made so far, taken one after the other.
SequentialGet(t) == IF t \in Registered THEN Ref(lastReg[t]) ELSE Undefined

\* C26: when several callers run register, get, has, list and getAll on one
\* registry, whichever caller's operation comes next, each operation takes
\* effect atomically: between operations the catalog is that of the register
\* calls completed so far, and every result is the one the same operations
\* give when run one after the other in the order they took effect; a get
\* never sees a half-applied register, and list shows every identifier
\* registered before it exactly once.
C26_OperationsTakeEffectAtomically ==
    /\ [](\A t \in LookupIds : MapGet(providers, t) = SequentialGet(t))
    /\ [](MapKeys(providers) = firstOrder /\ NoRepeats(firstOrder))
    /\ [][/\ ret'.op = "get" =>
                /\ ret'.val = SequentialGet(ret'.arg)
                /\ ret'.val = Undefined \/ ret'.val.ref \in 1..Len(objs)
          /\ ret'.op = "has" => (ret'.val <=> ret'.arg \in Registered)
          /\ ret'.op = "list" =>
                /\ ret'.val = firstOrder
                /\ NoRepeats(ret'.val)
                /\ \A t \in Registered : \E i \in 1..Len(ret'.val) : ret'.val[i] = t
          /\ ret'.op = "getAll" =>
                /\ Len(ret'.val) = Len(firstOrder)
                /\ \A i \in 1..Len(firstOrder) :
                      ret'.val[i] = SequentialGet(firstOrder[i])
          /\ ret'.op \in {"get", "has", "list", "getAll"} =>
                /\ providers' = providers
                /\ lastReg' = lastReg
          /\ ret'.op \in {"none", "get", "has", "list", "getAll", "register"}]_vars

\* C26 witness: a get for the first of three registered identifiers has just
\* returned the object registered under it last, after registers under the
\* two other identifiers.
C26_Witness ==
    /\ ret.op = "get"
    /\ Len(providers) = 3
    /\ ret.arg = providers[1].key
    /\ ret.val = Ref(lastReg[ret.arg])
    /\ \A t \in Registered : t # ret.arg => lastReg[t] > lastReg[ret.arg]

-----------------------------------------------------------------------------
(* Properties of the ownership of registered objects, checked under
   SpecOwnership *)

\* What a caller reads from the result of get(t): the fields of the object
\* returned, or nothing when the result is undefined.
Reported(m, heap, t) == IF MapHas(m, t) THEN << heap[m[MapIndex(m, t)].val] >> ELSE <<>>

\* What a caller reads from the result of getAll().
ReportedAll(m, heap) == [i \in 1..Len(m) |-> heap[m[i].val]]

\* A step in which code outside the registry changes an object.
OutsideChange == Len(objs') = Len(objs) /\ objs' # objs

\* C27: the registry exclusively owns the instances it holds: after
\* register(p), a change made from outside the registry to p (to its current
\* model or its identifier) does not alter what get, list or getAll report.
C27_OutsideChangeDoesNotAlterReports ==
    [][OutsideChange =>
          /\ MapKeys(providers') = MapKeys(providers)
          /\ \A t \in LookupIds :
                Reported(providers', objs', t) = Reported(providers, objs, t)
          /\ ReportedAll(providers', objs') = ReportedAll(providers, objs)]_vars

\* What the code does guarantee under outside changes: the registry keeps the
\* same references under the same identifiers, so has and list answer as
\* before and get returns the same object (with its fields as changed).
OutsideChangeKeepsReferences ==
    [][OutsideChange =>
          /\ providers' = providers
          /\ \A t \in LookupIds : MapGet(providers', t) = MapGet(providers, t)]_vars

-----------------------------------------------------------------------------
(* Properties of PROVIDER_CAPABILITIES, checked under SpecTable *)

\* C28: the capability table maps each of the four known identifiers to
\* exactly one descriptor whose field values are identical on every lookup,
\* and a lookup for any identifier outside that closed set yields absent,
\* never a descriptor.
C28_TableIsClosedAndStable ==
    /\ DOMAIN PROVIDER_CAPABILITIES = {"openai", "anthropic", "gemini", "ollama"}
    /\ \A i \in 1..Len(capLog) :
          /\ capLog[i].key \in {"openai", "anthropic", "gemini", "ollama"} =>
                capLog[i].val.kind = "descriptor"
          /\ capLog[i].key \notin {"openai", "anthropic", "gemini", "ollama"} =>
                capLog[i].val.kind = "undefined"
    /\ \A i, j \in 1..Len(capLog) :
          capLog[i].key = capLog[j].key => capLog[i].val = capLog[j].val

\* What the code does guarantee of the table: the four known identifiers, and
\* no other string, get a descriptor, the same one on every lookup; a string
\* that names nothing on the prototype chain gets undefined.
OnlyKnownIdentifiersHaveDescriptors ==
    \A i \in 1..Len(capLog) :
        /\ capLog[i].val.kind = "descriptor" <=> capLog[i].key \in ProviderTypes
        /\ capLog[i].val.kind = "descriptor" =>
              capLog[i].val.value = PROVIDER_CAPABILITIES[capLog[i].key]
        /\ capLog[i].key = "unknown" => capLog[i].val = Undefined

-----------------------------------------------------------------------------
(* Frame of register, checked under SpecRegistry *)

\* A step in which register(p) takes effect, p being objs[ret'.arg].
RegisterStep == ret'.op = "register" /\ Len(objs') = Len(objs)

\* The identifiers in keys other than t, in their order.
Others(keys, t) == SelectSeq(keys, LAMBDA k : k # t)

\* C29: register(p) changes only the entry for p's own identifier: for every
\* other identifier the result of get and has is the same before and after,
\* the relative order of the other identifiers in list() is unchanged, and
\* register performs no validation of p: it succeeds for any instance and
\* calls none of p's operations (no object changes).
C29_RegisterChangesOnlyItsOwnEntry ==
    /\ [][RegisterStep =>
             /\ \A t \in LookupIds \ {objs[ret'.arg].type} :
                   /\ MapGet(providers', t) = MapGet(providers, t)
                   /\ MapHas(providers', t) = MapHas(providers, t)
             /\ Others(MapKeys(providers'), objs[ret'.arg].type)
                   = Others(MapKeys(providers), objs[ret'.arg].type)
             /\ objs' = objs]_vars
    /\ [](\A p \in 1..Len(objs) : ENABLED Register(p))

\* C29 witness: a register has just taken effect under the second of three
\* registered identifiers, which was registered before.
C29_Witness ==
    /\ ret.op = "register"
    /\ ret.replaced
    /\ Len(providers) = 3
    /\ providers[2].key = objs[ret.arg].type
    /\ providers[2].val = ret.arg

-----------------------------------------------------------------------------
(* Properties of the failure handleStream raises, checked under SpecStream *)

\* The normalized forms of the values a source may throw: an Error as it is,
\* any other value wrapped in an Error.
NormalizedSourceFailures == { Normalize(v) : v \in SourceThrowables }

\* C30: the failure handleStream raises to its caller is the same normalized
\* failure it passed to the onError observer: a source failure that is
\* already an Error is passed and raised unchanged, and any other thrown
\* value is wrapped in an Error.
C30_RaisedIsWhatOnErrorReceived ==
    Raised =>
        /\ (callbacks.onError => errorLog = << outcome.value >>)
        /\ (srcState = "failed" =>
              /\ outcome.value \in NormalizedSourceFailures
              /\ (outcome.value.wrapped <=> outcome.value # SourceError))

\* What the code does guarantee of the failure raised: unless the onError
\* observer itself throws, handleStream raises the failure it passed to the
\* observer, and for a failed source that is the normalized source failure.
RaisedIsWhatOnErrorReceivedUnlessItThrew ==
    /\ (Raised /\ outcome.value.from # "onError") =>
          /\ (callbacks.onError => errorLog = << outcome.value >>)
          /\ (srcState = "failed" =>
                /\ outcome.value \in NormalizedSourceFailures
                /\ (outcome.value.wrapped <=> outcome.value # SourceError))
    /\ (pc \in {"onError", "throw"} /\ srcState = "failed" =>
          err \in NormalizedSourceFailures)
    /\ \A i \in 1..Len(errorLog) : errorLog[i] = err


-----------------------------------------------------------------------------
(* Stopping a drain, checked under SpecCancel *)

\* C31 (as stated): a caller can stop a drain early: once the caller has
\* raised its cancellation signal, no fragment requested from the source
\* after that is processed.
C31_CancelStopsTheDrain ==
    cancel.raised =>
        \A n \in 1..Len(emitted) : n > cancel.at => Pos("append", n) = {}

\* C31 (amended): handleStream takes no cancellation signal.  A drain the
\* caller wished to stop still processes every fragment the source yields,
\* and it finishes only when the source has ended or failed.
C31_DrainIgnoresTheCallersWish ==
    cancel.raised /\ Finished =>
        /\ srcState \in {"ended", "failed"}
        /\ \A n \in 1..Len(emitted) : Pos("append", n) # {}

\* C31 witness: the caller wished to stop after the first fragment of a
\* drain that then processed two more and finished.
C31_Witness ==
    /\ cancel.raised
    /\ cancel.at = 1
    /\ Finished
    /\ Len(emitted) = 3
    /\ Pos("append", 3) # {}

-----------------------------------------------------------------------------
(* Laziness and source failure of bufferStream, checked under SpecBuffer *)

\* The generator is suspended: it runs again only when its consumer asks.
Suspended == bpc \in {"suspendedStart", "suspendedYield", "suspendedFinal"}

\* The step requests a fragment from the source.
RequestsFragment == emitted' # emitted \/ srcState' # srcState

\* C32: bufferStream is lazy.  Before the consumer's first request no
\* fragment has been requested from the source; a fragment is requested only
\* inside the loop, which is entered only by a request of the consumer or
\* after a fragment that produced no chunk; every chunk put out suspends the
\* generator, and a suspended generator requests nothing.
C32_BufferStreamIsLazy ==
    /\ [](bpc \in {"idle", "suspendedStart"} =>
             emitted = <<>> /\ srcState = "open")
    /\ [][RequestsFragment => bpc = "pull"]_vars
    /\ [][yielded' # yielded => bpc' \in {"suspendedYield", "suspendedFinal"}]_vars
    /\ [][bpc' = "pull" =>
             \/ bpc \in {"suspendedStart", "suspendedYield"}
             \/ bpc = "append" /\ yielded' = yielded]_vars
    /\ [][Suspended => ~RequestsFragment]_vars

\* C32 witness: the consumer has one chunk and has not asked for another;
\* the source has given one fragment and is still open.
C32_Witness ==
    /\ bpc = "suspendedYield"
    /\ Len(yielded) = 1
    /\ Len(emitted) = 1
    /\ srcState = "open"

\* C36: when the source of bufferStream fails, the consumer's request ends
\* with the failure the source raised; the chunks put out before are,
\* concatenated, a prefix of the fragments received, the rest being the
\* characters still in the buffer; and nothing is put out afterwards.
C36_SourceFailureReachesConsumer ==
    /\ [](srcState = "failed" =>
             /\ bpc = "done"
             /\ bufOutcome.kind = "raised"
             /\ bufOutcome.value \in SourceThrowables
             /\ Concat(yielded) \o buffer = Concat(emitted))
    /\ [][srcState = "failed" => yielded' = yielded /\ bufOutcome' = bufOutcome]_vars

\* C36 witness: the source failed after a chunk had been put out and with
\* characters pending in the buffer.
C36_Witness ==
    /\ srcState = "failed"
    /\ bufOutcome.kind = "raised"
    /\ Len(yielded) >= 1
    /\ buffer # <<>>

-----------------------------------------------------------------------------
(* The terminal observers of handleStream, checked under SpecStream *)

\* C33: in one drain at most one of onComplete and onError is invoked, and
\* it is invoked at most once, whatever the observers do.
C33_AtMostOneTerminalObserver ==
    /\ Len(completeLog) + Len(errorLog) <= 1
    /\ Cardinality(Pos("complete", 0)) + Cardinality(Pos("error", 0)) <= 1

\* When onComplete does not throw, C33 holds.
AtMostOneTerminalObserverUnlessCompleteThrew ==
    /\ pending # ObserverError("onComplete")
    /\ err # Normalize(ObserverError("onComplete"))
    => Len(completeLog) + Len(errorLog) <= 1

\* Positions in the history of the steps of kind ev.
PosOf(ev) == { i \in 1..Len(trace) : trace[i].ev = ev }

\* C34: once onComplete or onError has been invoked the drain is over: no
\* onChunk call and no request to the source comes after it; and once the
\* source has ended or failed, the request that found it so is the last.
C34_NothingAfterTerminalObserver ==
    /\ \A i \in PosOf("complete") \cup PosOf("error") :
          \A j \in PosOf("chunkCall") \cup PosOf("pull") : j < i
    /\ srcState # "open" => Cardinality(PosOf("pull")) = Len(emitted) + 1
    /\ srcState = "failed" =>
          pc \notin {"next", "accumulate", "callOnChunk", "inOnChunk", "complete"}

\* C34 witness: the source failed after two fragments handed to onChunk, and
\* onError has been invoked.
C34_Witness ==
    /\ srcState = "failed"
    /\ Len(emitted) = 2
    /\ Len(chunkLog) = 2
    /\ Len(errorLog) = 1
    /\ Finished

-----------------------------------------------------------------------------
(* Termination of handleStream, checked under SpecStreamFair *)

\* C35: a drain whose source and observers settle every call eventually
\* finishes; it finishes with exactly one outcome, a returned string or a
\* raised failure, which does not change afterwards; and it finishes only
\* when the source has ended or failed.
C35_DrainFinishesWithOneOutcome ==
    /\ (pc # "idle") ~> Finished
    /\ [](Finished <=> outcome.kind \in {"returned", "raised"})
    /\ [](Finished => srcState \in {"ended", "failed"})
    /\ [][Finished => outcome' = outcome /\ pc' = pc]_vars

\* C35 witness: a drain of three fragments finished with a returned string.
C35_Witness ==
    /\ Finished
    /\ Returned
    /\ Len(emitted) = 3
    /\ srcState = "ended"

-----------------------------------------------------------------------------
(* Permanence of registry entries, checked under SpecRegistry *)

\* C37: the registry never loses an entry: an identifier for which has()
\* is true stays so after every step, and list() never gets shorter.
C37_RegistryNeverLosesAnEntry ==
    [][/\ \A t \in ProviderTypes :
             MapHas(providers, t) => MapHas(providers', t)
       /\ Len(MapKeys(providers')) >= Len(MapKeys(providers))]_vars

\* C37 witness: two identifiers are held and one of them has been
\* registered again since.
C37_Witness ==
    /\ Len(providers) = 2
    /\ ret.op = "register"
    /\ ret.replaced
    /\ Len(ret.keysBefore) = 2

-----------------------------------------------------------------------------
(* Reads and returned arrays of the registry, checked under SpecSnapshots *)

\* C38: get, has, list and getAll leave the registry as it is; an array
\* returned by list or getAll and kept by the caller is not changed by a
\* later register, and the caller changing that array does not change the
\* registry.
C38_ReadsAndSnapshots ==
    /\ [][ret'.op \in {"get", "has", "list", "getAll"} =>
             providers' = providers]_vars
    /\ [][held.from # "none" /\ providers' # providers => held' = held]_vars
    /\ [][held.from # "none" /\ held'.val # held.val =>
             providers' = providers /\ objs' = objs]_vars

\* C38 witness: the caller keeps the array list() returned when one
\* identifier was held; a second identifier has been registered since.
C38_Witness ==
    /\ held.from = "list"
    /\ Len(held.val) = 1
    /\ Len(providers) = 2
    /\ ret.op = "register"

-----------------------------------------------------------------------------
(* Registries built by the static helpers, checked under SpecRegistries *)

\* The step belongs to a call of createDefault or detectAvailable.
HelperStep == factoryVars' # factoryVars

\* C39: every call of createDefault builds a registry of its own, starting
\* from an empty catalog, and detectAvailable probes one built the same way:
\* no step of either helper changes the registry the caller holds, and the
\* caller registering into the registry it holds does not change the one a
\* helper builds or has returned.
C39_RegistriesShareNothing ==
    /\ [][fpc = "idle" /\ fpc' = "create" => providers' = <<>>]_vars
    /\ [][callerRegistry.present /\ HelperStep =>
             callerRegistry' = callerRegistry]_vars
    /\ [][callerRegistry.present /\ callerRegistry' # callerRegistry =>
             providers' = providers /\ snapshot' = snapshot]_vars

\* C39 witness: the caller holds a registry with one entry less than the
\* one detectAvailable built and probed afterwards.
C39_Witness ==
    /\ callerRegistry.present
    /\ fop = "detectAvailable"
    /\ fpc = "done"
    /\ Len(callerRegistry.map) + 1 = Len(providers)

-----------------------------------------------------------------------------
(* The probing loop of detectAvailable, checked under SpecFactoryFair *)

Probing == fop = "detectAvailable" /\ fpc \in {"loop", "validating", "done"}

\* C40: detectAvailable calls validateConfig on the instances of its
\* registry in registry order, once each; a call is made only after the one
\* before it has settled; when the helper returns every instance has been
\* probed; and a helper whose validation calls all settle does return.
C40_ProbesOnceInOrderAndReturns ==
    /\ [](Probing =>
             /\ snapshot = MapValues(providers)
             /\ Len(valLog) <= Len(snapshot)
             /\ \A i \in 1..Len(valLog) : valLog[i].ref = snapshot[i].ref
             /\ \A i, j \in 1..Len(valLog) :
                   i # j => valLog[i].ref # valLog[j].ref
             /\ \A i \in 1..Len(valLog) :
                   valLog[i].outcome = "pending" =>
                       i = Len(valLog) /\ fpc = "validating")
    /\ [](Probing /\ fpc = "done" => Len(valLog) = Len(snapshot))
    /\ (fop = "detectAvailable") ~> (fpc = "done")

\* C40 witness: detectAvailable returned after probing three instances, the
\* first of which rejected.
C40_Witness ==
    /\ fop = "detectAvailable"
    /\ fpc = "done"
    /\ Len(valLog) = 3
    /\ valLog[1].outcome = "throws"
=============================================================================
